---- MODULE Spec2Model ----
(***************************************************************************)
(* CoachShare server: the coach/athlete relationship model, the regimen    *)
(* assignment model and the workout logs, as the services and controllers  *)
(* read and write them in the document store.                              *)
(*                                                                         *)
(* Ids are well-formed ObjectIds drawn from small sets; an id may resolve  *)
(* to no document (Ghost, GhostRegimen, a slot not created yet).  A user   *)
(* is looked up by e-mail through the id of the slot the e-mail belongs    *)
(* to.  Arrays are sequences, in insertion order, so that a duplicate      *)
(* entry and the "first remaining coach" are visible.                      *)
(***************************************************************************)
EXTENDS Integers, Sequences, FiniteSets, TLC

VARIABLES users, regimens, logs, last, procs

vars == <<users, regimens, logs, last, procs>>

(* ------------------------------ bounds -------------------------------- *)
MaxAthletes == 2
MaxCoaches == 2
MaxRegimens == 1
MaxLogs == 1
MaxProcs == 2
MaxPurgeLogs == 2
MaxWorkouts == 26
VariedWorkouts == 3
UnitsPerDay == 2
MaxGap == 6 * UnitsPerDay

(* ------------------------------ identities ---------------------------- *)
NoId == 0
Athletes == 1..MaxAthletes
Coaches == (MaxAthletes + 1)..(MaxAthletes + MaxCoaches)
Admin == MaxAthletes + MaxCoaches + 1
Ghost == Admin + 1
UserIds == 1..Admin
RegimenIds == 1..MaxRegimens
GhostRegimen == MaxRegimens + 1
LogIds == 1..MaxLogs
ProcIds == 1..MaxProcs
PurgeLogIds == 1..MaxPurgeLogs

RoleOf(u) == IF u \in Athletes THEN "athlete" ELSE IF u \in Coaches THEN "coach" ELSE "admin"

(* The account the /link-athlete route links to (a fixed e-mail address). *)
LinkCoach == MaxAthletes + 1

(* ------------------------------ documents ----------------------------- *)
NoUser == [exists |-> FALSE, role |-> "none", coachId |-> NoId, primaryCoachId |-> NoId,
           coaches |-> <<>>, athletes |-> <<>>, regimens |-> <<>>]

NewUser(r) == [exists |-> TRUE, role |-> r, coachId |-> NoId, primaryCoachId |-> NoId,
               coaches |-> <<>>, athletes |-> <<>>, regimens |-> <<>>]

(* deleted: the id was used by a regimen that is gone; ids are never reused. *)
(* rev: the revision of the regimen's content (name, days, ...).           *)
NoRegimen == [exists |-> FALSE, deleted |-> FALSE, createdBy |-> NoId, assignedTo |-> <<>>, rev |-> 0]

NoLog == [exists |-> FALSE, athleteId |-> NoId, regimenId |-> <<"oid", 0>>, sharedWith |-> <<>>]

(* ------------------------------ array helpers ------------------------- *)
Range(s) == {s[i] : i \in DOMAIN s}

(* arr.some(x => x.equals(id)) *)
Has(s, id) == \E i \in DOMAIN s : s[i] = id

(* arr.filter(x => !x.equals(id)) *)
Without(s, id) == SelectSeq(s, LAMBDA x : x # id)

Count(s, id) == Cardinality({i \in DOMAIN s : s[i] = id})

(* User.findById(id): the stored document, or null *)
Found(us, id) == id \in DOMAIN us /\ us[id].exists

Outcome(us, e, w) == [users |-> us, err |-> e, writes |-> w]

DbOutcome(us, regs, lg, e, w) ==
    [users |-> us, regimens |-> regs, logs |-> lg, err |-> e, writes |-> w]

Min(S) == CHOOSE m \in S : \A n \in S : m <= n

(* $addToSet with $each: every element of S not yet present is appended. *)
RECURSIVE AddEach(_, _)
AddEach(s, S) ==
    IF S = {} THEN s
    ELSE LET m == Min(S)
         IN  AddEach(IF Has(s, m) THEN s ELSE Append(s, m), S \ {m})

(* A regimen is named by its store id ("oid") or by its string id ("uuid"). *)
RegimenKinds == {"oid", "uuid"}
RegimenRefs == RegimenKinds \X (RegimenIds \cup {GhostRegimen})

(* Regimen.findOne({id}) or Regimen.findOne({_id}): the regimen, or 0. *)
resolveRegimen(regs, rid) ==
    IF rid[2] \in DOMAIN regs /\ regs[rid[2]].exists THEN rid[2] ELSE 0

(* The most recent completed request: the operation, its outcome and the   *)
(* number of document writes it issued.                                    *)
Called(o, r) == [op |-> o, err |-> r.err, writes |-> r.writes]

(* ------------------------------ registration -------------------------- *)
(* authService.registerUser: a new account has no relationship fields set. *)
registerUser(us, u) ==
    IF Found(us, u) THEN Outcome(us, "InvalidInput", 0)
    ELSE Outcome([us EXCEPT ![u] = NewUser(RoleOf(u))], "ok", 1)

(* ------------------------------ userService.assignCoach --------------- *)
(* "Update Athlete": push the coach if absent, set primary/legacy if unset. *)
assignCoachAthlete(ath, c) ==
    LET d1 == IF ~Has(ath.coaches, c) THEN [ath EXCEPT !.coaches = Append(@, c)] ELSE ath
        d2 == IF d1.primaryCoachId = NoId THEN [d1 EXCEPT !.primaryCoachId = c] ELSE d1
    IN  IF d2.coachId = NoId THEN [d2 EXCEPT !.coachId = c] ELSE d2

(* A push into coach.athletes without the membership test. *)
assignCoachCoachAlways(co, a) == [co EXCEPT !.athletes = Append(@, a)]

(* "Update Coach": push the athlete if absent. *)
assignCoachCoach(co, a) ==
    IF ~Has(co.athletes, a) THEN [co EXCEPT !.athletes = Append(@, a)] ELSE co

assignCoach(us, a, c) ==
    IF ~Found(us, a) \/ us[a].role # "athlete" THEN Outcome(us, "NotFound", 0)
    ELSE IF ~Found(us, c) \/ us[c].role # "coach" THEN Outcome(us, "NotFound", 0)
    ELSE LET ad == assignCoachAthlete(us[a], c)
             cd == assignCoachCoach(us[c], a)
             athleteNeedsSave == ad # us[a]
             coachNeedsSave == cd # us[c]
         IN  Outcome([us EXCEPT ![a] = ad, ![c] = cd], "ok",
                     (IF athleteNeedsSave THEN 1 ELSE 0) + (IF coachNeedsSave THEN 1 ELSE 0))

(* await Promise.all(savePromises) where the save of one document is       *)
(* rejected: the other save was issued with it and is stored; the call     *)
(* throws.                                                                 *)
assignCoachOneSaved(us, a, c, failed) ==
    IF ~Found(us, a) \/ us[a].role # "athlete" THEN Outcome(us, "NotFound", 0)
    ELSE IF ~Found(us, c) \/ us[c].role # "coach" THEN Outcome(us, "NotFound", 0)
    ELSE LET ad == assignCoachAthlete(us[a], c)
             cd == assignCoachCoach(us[c], a)
             athleteNeedsSave == ad # us[a]
             coachNeedsSave == cd # us[c]
         IN  IF failed = "athlete" /\ athleteNeedsSave
             THEN Outcome([us EXCEPT ![c] = cd], "ServerError", IF coachNeedsSave THEN 1 ELSE 0)
             ELSE IF failed = "coach" /\ coachNeedsSave
             THEN Outcome([us EXCEPT ![a] = ad], "ServerError", IF athleteNeedsSave THEN 1 ELSE 0)
             ELSE assignCoach(us, a, c)

(* ------------------------------ userService.removeCoach --------------- *)
(* TRUE when the filter of athlete.coaches dropped an entry. *)
removeCoachDropped(ath, c) ==
    Len(ath.coaches) > 0 /\ Len(Without(ath.coaches, c)) < Len(ath.coaches)

(* The athlete document after "Update Athlete", before the legacy re-check. *)
removeCoachFiltered(ath, c) ==
    IF ~removeCoachDropped(ath, c) THEN ath
    ELSE LET rest == Without(ath.coaches, c)
             d1 == [ath EXCEPT !.coaches = rest]
             d2 == IF d1.primaryCoachId = c
                   THEN [d1 EXCEPT !.primaryCoachId = IF Len(rest) > 0 THEN rest[1] ELSE NoId]
                   ELSE d1
         IN  IF d2.coachId = c THEN [d2 EXCEPT !.coachId = d2.primaryCoachId] ELSE d2

(* "Also check legacy field just in case coaches array was empty". *)
removeCoachAthlete(ath, c) ==
    LET d3 == removeCoachFiltered(ath, c)
    IN  IF d3.coachId = c THEN [d3 EXCEPT !.coachId = NoId, !.primaryCoachId = NoId] ELSE d3

(* An unlink that leaves coach.athletes as it was. *)
removeCoachCoachKept(co, a) == co

(* "Update Coach": filter the athlete out of coach.athletes. *)
removeCoachCoach(co, a) == [co EXCEPT !.athletes = Without(@, a)]

removeCoach(us, a, c) ==
    IF ~Found(us, a) \/ us[a].role # "athlete" THEN Outcome(us, "NotFound", 0)
    ELSE IF ~Found(us, c) \/ us[c].role # "coach" THEN Outcome(us, "NotFound", 0)
    ELSE LET athleteModified == removeCoachDropped(us[a], c)
                                  \/ removeCoachFiltered(us[a], c).coachId = c
             coachModified == Has(us[c].athletes, a)
             ad == IF athleteModified THEN removeCoachAthlete(us[a], c) ELSE us[a]
             cd == IF coachModified THEN removeCoachCoach(us[c], a) ELSE us[c]
         IN  Outcome([us EXCEPT ![a] = ad, ![c] = cd], "ok",
                     (IF athleteModified THEN 1 ELSE 0) + (IF coachModified THEN 1 ELSE 0))


(* ------------------------------ authController.inviteAthlete ---------- *)
(* The athlete document User.create stores for a new invitee. *)
inviteAthleteNew(by) ==
    [NewUser("athlete") EXCEPT !.coachId = by, !.primaryCoachId = by, !.coaches = <<by>>]

(* "If existing user, update coach references". *)
inviteAthleteExisting(ath, by) ==
    LET d1 == IF ath.coachId = NoId THEN [ath EXCEPT !.coachId = by] ELSE ath
        d2 == IF d1.primaryCoachId = NoId THEN [d1 EXCEPT !.primaryCoachId = d1.coachId] ELSE d1
    IN  IF ~Has(d2.coaches, by) THEN [d2 EXCEPT !.coaches = Append(@, by)] ELSE d2

(* t: the account slot the invited e-mail address belongs to. *)
inviteAthlete(us, by, t) ==
    IF us[by].role # "coach" THEN Outcome(us, "Forbidden", 0)
    ELSE IF Found(us, t) /\ Has(us[by].athletes, t) THEN Outcome(us, "ok", 0)
    ELSE LET ad == IF Found(us, t) THEN inviteAthleteExisting(us[t], by) ELSE inviteAthleteNew(by)
             coachNeedsUpdate == ~Has(us[by].athletes, t)
             cd == IF coachNeedsUpdate THEN [us[by] EXCEPT !.athletes = Append(@, t)] ELSE us[by]
         IN  Outcome([us EXCEPT ![t] = ad, ![by] = cd], "ok", 1 + (IF coachNeedsUpdate THEN 1 ELSE 0))

(* ------------------------------ authController.removeAthlete ---------- *)
isConnected(ath, by) ==
    ath.coachId = by \/ ath.primaryCoachId = by \/ Has(ath.coaches, by)

removeAthleteAthlete(ath, by) ==
    LET isAthletesPrimaryCoach == ath.primaryCoachId = by
        isAthletesLegacyCoach == ath.coachId = by
        rest == Without(ath.coaches, by)
        d1 == [ath EXCEPT !.coaches = rest]
    IN  IF isAthletesPrimaryCoach \/ isAthletesLegacyCoach
        THEN IF Len(rest) > 0
             THEN [d1 EXCEPT !.primaryCoachId = rest[1], !.coachId = rest[1]]
             ELSE [d1 EXCEPT !.primaryCoachId = NoId, !.coachId = NoId]
        ELSE d1

removeAthlete(us, by, id) ==
    IF us[by].role # "coach" THEN Outcome(us, "Forbidden", 0)
    ELSE IF ~Found(us, id) THEN Outcome(us, "NotFound", 0)
    ELSE IF ~isConnected(us[id], by) THEN Outcome(us, "Forbidden", 0)
    ELSE LET ad == removeAthleteAthlete(us[id], by)
             coachSaved == Len(us[by].athletes) > 0
             cd == [us[by] EXCEPT !.athletes = Without(@, id)]
         IN  Outcome([us EXCEPT ![id] = ad, ![by] = cd], "ok", 1 + (IF coachSaved THEN 1 ELSE 0))

(* ------------------------------ authController.requestCoach ----------- *)
(* "If athlete already has a different coach, remove that connection". *)
requestCoachPrevious(us, by) ==
    LET prev == us[by].coachId
    IN  IF prev # NoId /\ Found(us, prev) /\ Len(us[prev].athletes) > 0
        THEN [us EXCEPT ![prev].athletes = Without(@, by)]
        ELSE us

(* "Update athlete's coachId" *)
requestCoachAthlete(ath, c) == [ath EXCEPT !.coachId = c]

(* TRUE when the previous coach's document is filtered and saved. *)
requestCoachPreviousSaved(us, by) ==
    LET prev == us[by].coachId
    IN  prev # NoId /\ Found(us, prev) /\ Len(us[prev].athletes) > 0

requestCoach(us, by, c) ==
    IF us[by].role # "athlete" THEN Outcome(us, "Forbidden", 0)
    ELSE IF c = NoId THEN Outcome(us, "InvalidInput", 0)
    ELSE IF ~Found(us, c) THEN Outcome(us, "NotFound", 0)
    ELSE IF us[c].role # "coach" THEN Outcome(us, "InvalidInput", 0)
    ELSE IF us[by].coachId = c THEN Outcome(us, "ok", 0)
    ELSE LET us1 == requestCoachPrevious(us, by)
             us2 == [us1 EXCEPT ![by] = requestCoachAthlete(@, c)]
             coachNeedsSave == ~Has(us[c].athletes, by)
             us3 == IF coachNeedsSave THEN [us2 EXCEPT ![c].athletes = Append(@, by)] ELSE us2
         IN  Outcome(us3, "ok", (IF requestCoachPreviousSaved(us, by) THEN 1 ELSE 0)
                                + 1 + (IF coachNeedsSave THEN 1 ELSE 0))

(* ------------------------------ GET /link-athlete/:email -------------- *)
linkAthlete(us, t) ==
    IF ~Found(us, t) THEN Outcome(us, "NotFound", 0)
    ELSE IF ~Found(us, LinkCoach) THEN Outcome(us, "NotFound", 0)
    ELSE LET us1 == [us EXCEPT ![t].coachId = LinkCoach]
             coachNeedsSave == ~Has(us[LinkCoach].athletes, t)
         IN  Outcome(IF coachNeedsSave THEN [us1 EXCEPT ![LinkCoach].athletes = Append(@, t)] ELSE us1,
                     "ok", 1 + (IF coachNeedsSave THEN 1 ELSE 0))


(* ------------------------------ authController.assignRegimen ---------- *)
(* "Auto-connect athlete with coach if not already connected": athlete side. *)
assignRegimenConnect(ath, by) ==
    LET d1 == IF ath.coachId = NoId
              THEN [ath EXCEPT !.coachId = by, !.primaryCoachId = by]
              ELSE IF ath.primaryCoachId = NoId
                   THEN [ath EXCEPT !.primaryCoachId = ath.coachId]
                   ELSE ath
    IN  [d1 EXCEPT !.coaches = Append(@, by)]

(* The store after the auto-connect step: only the coach has been saved. *)
assignRegimenCoachSaved(us, by, a) ==
    IF ~isConnected(us[a], by) /\ ~Has(us[by].athletes, a)
    THEN [us EXCEPT ![by].athletes = Append(@, a)]
    ELSE us

assignRegimen(us, regs, lg, by, a, rid) ==
    IF us[by].role # "coach" THEN DbOutcome(us, regs, lg, "Forbidden", 0)
    ELSE IF a = NoId THEN DbOutcome(us, regs, lg, "InvalidInput", 0)
    ELSE IF ~Found(us, a) THEN DbOutcome(us, regs, lg, "NotFound", 0)
    ELSE LET ad == IF ~isConnected(us[a], by) THEN assignRegimenConnect(us[a], by) ELSE us[a]
             us1 == assignRegimenCoachSaved(us, by, a)
             w1 == IF us1 # us THEN 1 ELSE 0
             r == resolveRegimen(regs, rid)
         IN  IF r = 0 THEN DbOutcome(us1, regs, lg, "NotFound", w1)
             ELSE IF Has(ad.regimens, r) THEN DbOutcome(us1, regs, lg, "InvalidInput", w1)
             ELSE DbOutcome([us1 EXCEPT ![a] = [ad EXCEPT !.regimens = Append(@, r)]],
                            regs, lg, "ok", w1 + 1)

(* ------------------------------ authController.assignRegimenBulk ------ *)
(* User.find({_id: {$in: ids}, role: 'athlete', coaches: coachId}) *)
bulkFoundAthletes(us, by, ids) ==
    {a \in ids : Found(us, a) /\ us[a].role = "athlete" /\ Has(us[a].coaches, by)}

assignRegimenBulk(us, regs, lg, by, rid, ids) ==
    IF ids = {} THEN DbOutcome(us, regs, lg, "InvalidInput", 0)
    ELSE IF rid[1] # "oid" THEN DbOutcome(us, regs, lg, "ServerError", 0)
    ELSE IF resolveRegimen(regs, rid) = 0 THEN DbOutcome(us, regs, lg, "NotFound", 0)
    ELSE IF regs[resolveRegimen(regs, rid)].createdBy # by THEN DbOutcome(us, regs, lg, "Forbidden", 0)
    ELSE LET r == resolveRegimen(regs, rid)
             found == bulkFoundAthletes(us, by, ids)
         IN  IF found = {} THEN DbOutcome(us, regs, lg, "InvalidInput", 0)
             ELSE DbOutcome([u \in DOMAIN us |->
                                IF u \in found THEN [us[u] EXCEPT !.regimens = AddEach(@, {r})] ELSE us[u]],
                            [regs EXCEPT ![r].assignedTo = AddEach(@, found)],
                            lg, "ok", 2)

(* ------------------------------ regimenService ------------------------ *)
createRegimen(regs, r, by) ==
    [regs EXCEPT ![r] = [exists |-> TRUE, deleted |-> FALSE, createdBy |-> by,
                         assignedTo |-> <<>>, rev |-> 0]]

(* An update that any requester may make. *)
updateRegimenAnyone(us, regs, lg, rid, by) ==
    LET r == resolveRegimen(regs, rid)
    IN  IF r = 0 THEN DbOutcome(us, regs, lg, "NotFound", 0)
        ELSE DbOutcome(us, [regs EXCEPT ![r].rev = 1 - @], lg, "ok", 1)

updateRegimen(us, regs, lg, rid, by) ==
    LET r == resolveRegimen(regs, rid)
    IN  IF r = 0 THEN DbOutcome(us, regs, lg, "NotFound", 0)
        ELSE IF regs[r].createdBy # by THEN DbOutcome(us, regs, lg, "Forbidden", 0)
        ELSE DbOutcome(us, [regs EXCEPT ![r].rev = 1 - @], lg, "ok", 1)

(* WorkoutLog.deleteMany({regimenId}) with the store id as a string. *)
deleteLogsByRegimen(lg, r) ==
    [l \in DOMAIN lg |-> IF lg[l].exists /\ lg[l].regimenId = <<"oid", r>> THEN NoLog ELSE lg[l]]

(* User.updateMany({_id: {$in: ids}}, {$pull: {regimens: r}}) *)
pullRegimen(us, ids, r) ==
    [u \in DOMAIN us |->
        IF u \in ids /\ us[u].exists THEN [us[u] EXCEPT !.regimens = Without(@, r)] ELSE us[u]]

deleteRegimen(us, regs, lg, rid, by, role) ==
    LET r == resolveRegimen(regs, rid)
    IN  IF r = 0 THEN DbOutcome(us, regs, lg, "NotFound", 0)
        ELSE LET isCreator == regs[r].createdBy = by
                 isAdmin == role = "admin"
             IN  IF ~isAdmin /\ ~isCreator THEN DbOutcome(us, regs, lg, "Forbidden", 0)
                 ELSE DbOutcome(pullRegimen(us, Range(regs[r].assignedTo), r),
                                [regs EXCEPT ![r] = [NoRegimen EXCEPT !.deleted = TRUE]],
                                deleteLogsByRegimen(lg, r), "ok", 3)

(* deleteRegimen when one of the two cleanup promises is rejected: both    *)
(* were issued, the other one takes effect, the error is logged and the    *)
(* call returns true.                                                      *)
deleteRegimenCleanupFailed(us, regs, lg, rid, by, role, failed) ==
    LET r == resolveRegimen(regs, rid)
    IN  IF r = 0 THEN DbOutcome(us, regs, lg, "NotFound", 0)
        ELSE LET isCreator == regs[r].createdBy = by
                 isAdmin == role = "admin"
             IN  IF ~isAdmin /\ ~isCreator THEN DbOutcome(us, regs, lg, "Forbidden", 0)
                 ELSE DbOutcome(IF failed = "users" THEN us
                                ELSE pullRegimen(us, Range(regs[r].assignedTo), r),
                                [regs EXCEPT ![r] = [NoRegimen EXCEPT !.deleted = TRUE]],
                                IF failed = "logs" THEN lg ELSE deleteLogsByRegimen(lg, r),
                                "ok", 2)

(* User.findOne({_id: athleteId, role: 'athlete', coaches: requestingCoachId}) *)
assignableAthlete(us, a, by) ==
    Found(us, a) /\ us[a].role = "athlete" /\ Has(us[a].coaches, by)

(* An assignment that appends on both sides without the membership tests. *)
assignRegimenToAthleteAlways(us, regs, lg, rid, a, by) ==
    LET r == resolveRegimen(regs, rid)
    IN  IF r = 0 THEN DbOutcome(us, regs, lg, "NotFound", 0)
        ELSE IF regs[r].createdBy # by THEN DbOutcome(us, regs, lg, "Forbidden", 0)
        ELSE IF ~assignableAthlete(us, a, by) THEN DbOutcome(us, regs, lg, "NotFound", 0)
        ELSE DbOutcome([us EXCEPT ![a].regimens = Append(@, r)],
                       [regs EXCEPT ![r].assignedTo = Append(@, a)], lg, "ok", 2)

assignRegimenToAthlete(us, regs, lg, rid, a, by) ==
    LET r == resolveRegimen(regs, rid)
    IN  IF r = 0 THEN DbOutcome(us, regs, lg, "NotFound", 0)
        ELSE IF regs[r].createdBy # by THEN DbOutcome(us, regs, lg, "Forbidden", 0)
        ELSE IF ~assignableAthlete(us, a, by) THEN DbOutcome(us, regs, lg, "NotFound", 0)
        ELSE LET regimenNeedsSave == ~Has(regs[r].assignedTo, a)
                 athleteNeedsSave == ~Has(us[a].regimens, r)
             IN  DbOutcome(IF athleteNeedsSave THEN [us EXCEPT ![a].regimens = Append(@, r)] ELSE us,
                           IF regimenNeedsSave THEN [regs EXCEPT ![r].assignedTo = Append(@, a)] ELSE regs,
                           lg, "ok",
                           (IF regimenNeedsSave THEN 1 ELSE 0) + (IF athleteNeedsSave THEN 1 ELSE 0))

(* A removal that pulls the regimen from the athlete and keeps assignedTo. *)
removeAthleteFromRegimenUserOnly(us, regs, lg, rid, a, by) ==
    LET r == resolveRegimen(regs, rid)
    IN  IF r = 0 THEN DbOutcome(us, regs, lg, "NotFound", 0)
        ELSE IF regs[r].createdBy # by THEN DbOutcome(us, regs, lg, "Forbidden", 0)
        ELSE DbOutcome(pullRegimen(us, {a}, r), regs, lg, "ok", 1)

removeAthleteFromRegimen(us, regs, lg, rid, a, by) ==
    LET r == resolveRegimen(regs, rid)
    IN  IF r = 0 THEN DbOutcome(us, regs, lg, "NotFound", 0)
        ELSE IF regs[r].createdBy # by THEN DbOutcome(us, regs, lg, "Forbidden", 0)
        ELSE LET regimenModified == Has(regs[r].assignedTo, a)
             IN  DbOutcome(pullRegimen(us, {a}, r),
                           IF regimenModified THEN [regs EXCEPT ![r].assignedTo = Without(@, a)] ELSE regs,
                           lg, "ok", 1 + (IF regimenModified THEN 1 ELSE 0))

(* ------------------------------ workoutLogService.createWorkoutLog ---- *)
(* The log is stored with whatever regimenId the athlete sent; the owner   *)
(* is filtered out of sharedWith.                                          *)
createWorkoutLog(lg, l, a, ref, sharedWith) ==
    [lg EXCEPT ![l] = [exists |-> TRUE, athleteId |-> a, regimenId |-> ref,
                       sharedWith |-> Without(sharedWith, a)]]

(* ------------------------------ workoutLogSchema.pre('save') ---------- *)
(* this.sharedWith = this.sharedWith.filter(id => !id.equals(athleteId))   *)
workoutLogPreSave(doc) == [doc EXCEPT !.sharedWith = Without(@, doc.athleteId)]

(* POST /workout-logs with the whole request body: sharedWith is filtered  *)
(* against the caller; the remaining body fields are spread last, so an    *)
(* athleteId in the body (NoId: none sent) replaces the caller's;          *)
(* WorkoutLog.create runs the save hook on the document.                   *)
createWorkoutLogFromBody(lg, l, by, bodyAthleteId, ref, sharedWith) ==
    LET finalSharedWith == Without(sharedWith, by)
        doc == [exists |-> TRUE,
                athleteId |-> IF bodyAthleteId = NoId THEN by ELSE bodyAthleteId,
                regimenId |-> ref, sharedWith |-> finalSharedWith]
    IN  [lg EXCEPT ![l] = workoutLogPreSave(doc)]

(* ------------------------------ workoutLogController.updateWorkoutLog - *)
(* fetchWorkoutLogById: the owner, or a coach of the owner, may read. *)
mayFetchWorkoutLog(us, l, by) ==
    \/ us[by].role = "athlete" /\ l.athleteId = by
    \/ us[by].role = "coach" /\ Found(us, l.athleteId) /\ Has(us[l.athleteId].coaches, by)

(* The update data handed to the service without the owner filter. *)
filteredSharedWithAll(sharedWith, owner) == sharedWith

(* validSharedWith.filter(id => !id.equals(log.athleteId._id)) *)
filteredSharedWith(sharedWith, owner) == Without(sharedWith, owner)

(* workoutLogService.updateWorkoutLog(logId, filteredUpdateData): the log  *)
(* with the fields of the update data.                                     *)
updateWorkoutLogService(lg, l, data) == [lg EXCEPT ![l].sharedWith = data]

(* stored: the service call returned; otherwise it threw and the handler   *)
(* answers 500 with nothing written.                                       *)
updateWorkoutLog(us, regs, lg, l, by, sharedWith, stored) ==
    IF l \notin DOMAIN lg \/ ~lg[l].exists THEN DbOutcome(us, regs, lg, "NotFound", 0)
    ELSE IF ~mayFetchWorkoutLog(us, lg[l], by) THEN DbOutcome(us, regs, lg, "Forbidden", 0)
    ELSE IF us[by].role # "athlete" \/ lg[l].athleteId # by
         THEN DbOutcome(us, regs, lg, "Forbidden", 0)
    ELSE IF ~stored THEN DbOutcome(us, regs, lg, "ServerError", 0)
    ELSE DbOutcome(us, regs,
                   updateWorkoutLogService(lg, l, filteredSharedWith(sharedWith, lg[l].athleteId)),
                   "ok", 1)

(* ------------------------------ orphan purge ------------------------- *)
(* existingRegimenIdsSet.has(logIdStr): the log's regimenId string is the  *)
(* _id string of a stored regimen.                                         *)
inExistingRegimenIds(regs, ref) ==
    ref[1] = "oid" /\ ref[2] \in DOMAIN regs /\ regs[ref[2]].exists

(* WorkoutLog.distinct('regimenId') filtered against the regimens' _ids. *)
orphanedRegimenIds(lg, regs) ==
    {ref \in {lg[l].regimenId : l \in {k \in DOMAIN lg : lg[k].exists}} :
        ~inExistingRegimenIds(regs, ref)}

(* WorkoutLog.deleteMany({regimenId: {$in: orphanedRegimenIds}}) *)
deleteOrphanedLogs(lg, regs) ==
    LET orphaned == orphanedRegimenIds(lg, regs)
    IN  [l \in DOMAIN lg |-> IF lg[l].exists /\ lg[l].regimenId \in orphaned THEN NoLog ELSE lg[l]]

(* workoutLogsController.handleCleanupRequest: the same purge, inline. *)
handleCleanupRequestAll(us, regs, lg) ==
    LET after == deleteOrphanedLogs(lg, regs)
    IN  DbOutcome(us, regs, after, "ok", IF after # lg THEN 1 ELSE 0)

(* workoutLogController.handleCleanupRequest: coaches only; with logIds    *)
(* the selected logs are tested with Regimen.exists({_id: log.regimenId}), *)
(* which cannot cast a string id; without logIds the service purge runs.   *)
handleCleanupRequest(us, regs, lg, by, ids, selected) ==
    IF us[by].role # "coach" THEN DbOutcome(us, regs, lg, "Forbidden", 0)
    ELSE IF ~selected
         THEN LET after == deleteOrphanedLogs(lg, regs)
              IN  DbOutcome(us, regs, after, "ok", IF after # lg THEN 1 ELSE 0)
    ELSE LET found == {l \in ids : l \in DOMAIN lg /\ lg[l].exists}
             orphanedLogs == {l \in found : ~inExistingRegimenIds(regs, lg[l].regimenId)}
         IN  IF \E l \in found : lg[l].regimenId[1] # "oid"
             THEN DbOutcome(us, regs, lg, "ServerError", 0)
             ELSE IF orphanedLogs = {} THEN DbOutcome(us, regs, lg, "ok", 0)
             ELSE DbOutcome(us, regs,
                            [l \in DOMAIN lg |-> IF l \in orphanedLogs THEN NoLog ELSE lg[l]],
                            "ok", 1)

(* ------------------------------ relationship repair ------------------- *)
(* if (!arr.map(id => id.toString()).includes(x.toString())) arr.push(x)   *)
pushAlways(s, id) == Append(s, id)

pushMissing(s, id) == IF Has(s, id) THEN s ELSE Append(s, id)

(* Regimen.findById(log.regimenId): the string is cast to an ObjectId; the *)
(* string id of a regimen cannot be cast and the query throws.             *)
castsToObjectId(ref) == ref[1] = "oid"

findRegimenById(regs, ref) ==
    IF ref[2] \in DOMAIN regs /\ regs[ref[2]].exists THEN ref[2] ELSE 0

(* One iteration of the loop of fixWorkoutLogRelationships: three          *)
(* independent checks, each followed by the save of the changed document.  *)
fixLogRelationships(db, l) ==
    IF ~castsToObjectId(l.regimenId)
    THEN [db EXCEPT !.err = "ServerError"]
    ELSE LET r == findRegimenById(db.regimens, l.regimenId)
             a == l.athleteId
         IN  IF r = 0 \/ ~Found(db.users, a) THEN db
             ELSE LET c == db.regimens[r].createdBy
                  IN  IF c = NoId \/ ~Found(db.users, c) THEN db
                      ELSE LET coachSaved == [db.users EXCEPT ![c].athletes = pushMissing(@, a)]
                               athleteSaved == [coachSaved EXCEPT ![a].coaches = pushMissing(@, c)]
                               regimenSaved == [db.regimens EXCEPT ![r].assignedTo = pushMissing(@, a)]
                           IN  [db EXCEPT !.users = athleteSaved, !.regimens = regimenSaved,
                                          !.writes = @ + (IF coachSaved # db.users THEN 1 ELSE 0)
                                                       + (IF athleteSaved # coachSaved THEN 1 ELSE 0)
                                                       + (IF regimenSaved # db.regimens THEN 1 ELSE 0)]

(* One iteration of the loop of fixWorkoutLogAssociations: the regimen is  *)
(* saved at once, the athlete and the coach are both saved when either     *)
(* array was changed.                                                      *)
fixLogAssociations(db, l) ==
    IF ~castsToObjectId(l.regimenId)
    THEN [db EXCEPT !.err = "ServerError"]
    ELSE LET r == findRegimenById(db.regimens, l.regimenId)
             a == l.athleteId
         IN  IF r = 0 \/ ~Found(db.users, a) THEN db
             ELSE LET c == db.regimens[r].createdBy
                  IN  IF c = NoId \/ ~Found(db.users, c) THEN db
                      ELSE LET athleteDoc == [db.users[a] EXCEPT !.coaches = pushMissing(@, c)]
                               coachDoc == [db.users[c] EXCEPT !.athletes = pushMissing(@, a)]
                               updated == athleteDoc # db.users[a] \/ coachDoc # db.users[c]
                               regimenSaved == [db.regimens EXCEPT ![r].assignedTo = pushMissing(@, a)]
                               athleteSaved == [db.users EXCEPT ![a].coaches = athleteDoc.coaches]
                               coachSaved == [athleteSaved EXCEPT ![c].athletes = coachDoc.athletes]
                           IN  [db EXCEPT !.users = coachSaved, !.regimens = regimenSaved,
                                          !.writes = @ + (IF regimenSaved # db.regimens THEN 1 ELSE 0)
                                                       + (IF updated THEN 2 ELSE 0)]

(* for (const log of workoutLogs): the logs in store order from slot i on; *)
(* an exception leaves the loop and ends the run.                          *)
RECURSIVE fixWorkoutLogRelationshipsFrom(_, _, _)
fixWorkoutLogRelationshipsFrom(db, lg, i) ==
    IF i \notin DOMAIN lg \/ db.err # "ok" THEN db
    ELSE fixWorkoutLogRelationshipsFrom(
             IF lg[i].exists THEN fixLogRelationships(db, lg[i]) ELSE db, lg, i + 1)

fixWorkoutLogRelationships(us, regs, lg) ==
    fixWorkoutLogRelationshipsFrom(DbOutcome(us, regs, lg, "ok", 0), lg, 1)

RECURSIVE fixWorkoutLogAssociationsFrom(_, _, _)
fixWorkoutLogAssociationsFrom(db, lg, i) ==
    IF i \notin DOMAIN lg \/ db.err # "ok" THEN db
    ELSE fixWorkoutLogAssociationsFrom(
             IF lg[i].exists THEN fixLogAssociations(db, lg[i]) ELSE db, lg, i + 1)

fixWorkoutLogAssociations(us, regs, lg) ==
    fixWorkoutLogAssociationsFrom(DbOutcome(us, regs, lg, "ok", 0), lg, 1)

(* ------------------------------ achievementService -------------------- *)
(* A completion time is a number of half days; a Date that holds NaN is    *)
(* InvalidDate.                                                            *)
InvalidDate == -1

(* String(log.completedAt): Date.prototype.toString(), the form            *)
(* "Tue Nov 03 2026 17:00:00 GMT+0000 (Coordinated Universal Time)".       *)
dateToString(t) == [format |-> "toString", time |-> t]

(* date-fns parseISO: the date of an ISO 8601 string, Invalid Date for a   *)
(* string in any other form.                                               *)
parseISO(str) == IF str.format = "iso" THEN str.time ELSE InvalidDate

(* date >= windowStart, date <= windowEnd: false when either side is NaN. *)
dateLeq(x, y) == x # InvalidDate /\ y # InvalidDate /\ x <= y

(* new Date(windowStart.getTime() + 6 * 24 * 60 * 60 * 1000) *)
windowEndOf(windowStart) ==
    IF windowStart = InvalidDate THEN InvalidDate ELSE windowStart + 6 * UnitsPerDay

(* date.toDateString(): the calendar day *)
toDateString(date) == IF date = InvalidDate THEN InvalidDate ELSE date \div UnitsPerDay

uniqueDaysInWindow(workoutDates, windowStart) ==
    {toDateString(workoutDates[j]) :
        j \in {k \in DOMAIN workoutDates :
                  /\ dateLeq(windowStart, workoutDates[k])
                  /\ dateLeq(workoutDates[k], windowEndOf(windowStart))}}

(* A milestone that is held at exactly ten workouts only. *)
milestone10Exactly(totalWorkouts) == totalWorkouts = 10

milestone10(totalWorkouts) == totalWorkouts >= 10

(* The earned achievements, each with its achievedDate, for the            *)
(* completedAt values of the logs found, sorted ascending.                 *)
calculateUserAchievements(completedAts) ==
    LET totalWorkouts == Len(completedAts)
        workoutDates == [i \in DOMAIN completedAts |-> parseISO(dateToString(completedAts[i]))]
        consistent == {i \in 1..(totalWorkouts - 2) :
                          Cardinality(uniqueDaysInWindow(workoutDates, workoutDates[i])) >= 3}
    IN  IF totalWorkouts = 0 THEN {}
        ELSE {[id |-> "first-workout", achievedDate |-> completedAts[1]]}
             \cup (IF milestone10(totalWorkouts)
                   THEN {[id |-> "milestone-10", achievedDate |-> completedAts[10]]} ELSE {})
             \cup (IF totalWorkouts >= 25
                   THEN {[id |-> "milestone-25", achievedDate |-> completedAts[25]]} ELSE {})
             \cup (IF consistent # {}
                   THEN {[id |-> "consistent-week",
                          achievedDate |-> windowEndOf(workoutDates[Min(consistent)])]}
                   ELSE {})

(* WorkoutLog.find({ userId }): the schema has athleteId and no userId     *)
(* path. With strictQuery on, the unknown path is removed from the filter  *)
(* and every log matches; with strictQuery off, the store is asked for     *)
(* logs with a userId field, and no log has one.                           *)
findLogsByUserId(lg, u, strictQuery) ==
    IF strictQuery THEN lg ELSE SelectSeq(lg, LAMBDA l : FALSE)

calculateUserAchievementsOf(lg, u, strictQuery) ==
    LET found == findLogsByUserId(lg, u, strictQuery)
    IN  calculateUserAchievements([i \in DOMAIN found |-> found[i].completedAt])

(* ------------------------------ pace calculator ----------------------- *)
(* A time string "SS.mmm" (colon FALSE) or "MM:SS.mmm" (colon TRUE): the   *)
(* number before the colon and the thousandths of a second after it.       *)
TimeString(colon, minutes, millis) == [colon |-> colon, minutes |-> minutes, millis |-> millis]

(* parseTimeToSeconds: the time in thousandths of a second, or a throw. *)
parseTimeToSeconds(str) ==
    IF str.colon
    THEN IF str.minutes < 0 \/ str.millis < 0 \/ str.millis >= 60 * 1000
         THEN [ok |-> FALSE, millis |-> 0]
         ELSE [ok |-> TRUE, millis |-> str.minutes * 60 * 1000 + str.millis]
    ELSE IF str.millis < 0 THEN [ok |-> FALSE, millis |-> 0]
         ELSE [ok |-> TRUE, millis |-> str.millis]

(* A formatting that cuts the digits after the second decimal. *)
toFixedCut(num, den, up) == num \div (10 * den)

(* formatSecondsToTime: (num / den thousandths of a second).toFixed(2), in *)
(* hundredths. A value that lies in decimal exactly between two hundredths *)
(* is held as a binary fraction just above or just below it: up tells      *)
(* which.                                                                  *)
formatSecondsToTime(num, den, up) ==
    LET q == num \div (10 * den)
        r == num % (10 * den)
    IN  IF 2 * r > 10 * den THEN q + 1
        ELSE IF 2 * r < 10 * den THEN q
        ELSE IF up THEN q + 1 ELSE q

(* Every 50 below the total distance, and the total distance. *)
generateStandardSegments(totalDistance) ==
    {d \in 1..totalDistance : d % 50 = 0 /\ d < totalDistance} \cup {totalDistance}

(* segmentDistance / trainingPaceMS with trainingPaceMS =                  *)
(* (totalDistance / targetTime) * (effortPercentage / 100), formatted.     *)
calculatePace(totalDistance, targetTimeString, effortPercentage, up) ==
    LET targetTime == parseTimeToSeconds(targetTimeString)
    IN  IF totalDistance <= 0 THEN [err |-> "InvalidInput", results |-> {}]
        ELSE IF effortPercentage <= 0 \/ effortPercentage > 100
             THEN [err |-> "InvalidInput", results |-> {}]
        ELSE IF ~targetTime.ok \/ targetTime.millis <= 0
             THEN [err |-> "InvalidInput", results |-> {}]
        ELSE [err |-> "ok",
              results |-> {[distance |-> d,
                            time |-> formatSecondsToTime(targetTime.millis * d * 100,
                                                         totalDistance * effortPercentage,
                                                         d \in up)] :
                              d \in generateStandardSegments(totalDistance)}]

(* ------------------------------ migrate-to-multiple-coaches.js -------- *)
(* The migration of one athlete without the copy of coachId into           *)
(* primaryCoachId.                                                         *)
migrateAthleteCoachesOnly(ath) ==
    [ath EXCEPT !.coaches = IF Has(@, ath.coachId) THEN @ ELSE Append(@, ath.coachId)]

(* One iteration: primaryCoachId = coachId, coachId pushed if absent, save. *)
migrateAthlete(ath) ==
    [ath EXCEPT !.primaryCoachId = ath.coachId,
                !.coaches = IF Has(@, ath.coachId) THEN @ ELSE Append(@, ath.coachId)]

(* User.find({role: 'athlete', coachId set, coaches missing or empty}) *)
athletesToMigrate(us) ==
    {u \in DOMAIN us : /\ us[u].exists /\ us[u].role = "athlete"
                       /\ us[u].coachId # NoId /\ us[u].coaches = <<>>}

migrateToMultipleCoaches(us) ==
    Outcome([u \in DOMAIN us |-> IF u \in athletesToMigrate(us) THEN migrateAthlete(us[u]) ELSE us[u]],
            "ok", Cardinality(athletesToMigrate(us)))

(* ------------------------------ account deletion --------------------- *)
(* The slot of a deleted account: its id is never given to a new account. *)
DeletedUser == [NoUser EXCEPT !.role = "deleted"]

(* User.findByIdAndDelete(u) *)
findByIdAndDelete(us, u) == [us EXCEPT ![u] = DeletedUser]

(* User.updateMany({coachId: c}, {$unset: {coachId: ""}}) *)
unsetCoachId(us, c) ==
    [x \in DOMAIN us |->
        IF us[x].exists /\ us[x].coachId = c THEN [us[x] EXCEPT !.coachId = NoId] ELSE us[x]]

(* Regimen.find({createdBy: c}) *)
regimensCreatedBy(regs, c) == {r \in DOMAIN regs : regs[r].exists /\ regs[r].createdBy = c}

(* For each regimen found: $pull of its id from the athletes it is         *)
(* assigned to.                                                            *)
pullOwnedRegimens(us, regs, owned) ==
    [x \in DOMAIN us |->
        IF us[x].exists
        THEN [us[x] EXCEPT !.regimens =
                 SelectSeq(@, LAMBDA r : ~(r \in owned /\ Has(regs[r].assignedTo, x)))]
        ELSE us[x]]

(* Regimen.deleteMany({createdBy: c}) *)
deleteOwnedRegimens(regs, owned) ==
    [r \in DOMAIN regs |-> IF r \in owned THEN [NoRegimen EXCEPT !.deleted = TRUE] ELSE regs[r]]

(* The cleanup both deletion paths run for a coach. *)
coachCleanup(us, regs, c) ==
    LET owned == regimensCreatedBy(regs, c)
    IN  [users |-> pullOwnedRegimens(unsetCoachId(us, c), regs, owned),
         regimens |-> deleteOwnedRegimens(regs, owned)]

(* authService.deleteUserAccount's cleanup for an athlete: $pull from      *)
(* every coach's athletes and from every regimen's assignedTo.             *)
athleteCleanup(us, regs, a) ==
    [users |-> [x \in DOMAIN us |->
                   IF us[x].exists THEN [us[x] EXCEPT !.athletes = Without(@, a)] ELSE us[x]],
     regimens |-> [r \in DOMAIN regs |->
                   IF regs[r].exists THEN [regs[r] EXCEPT !.assignedTo = Without(@, a)] ELSE regs[r]]]

(* authService.deleteUserAccount(userId, userRole) *)
deleteUserAccount(us, regs, lg, u, role) ==
    LET cleaned == IF role = "coach" THEN coachCleanup(us, regs, u)
                   ELSE IF role = "athlete" THEN athleteCleanup(us, regs, u)
                   ELSE [users |-> us, regimens |-> regs]
        w == IF cleaned.users # us \/ cleaned.regimens # regs THEN 1 ELSE 0
    IN  IF ~Found(us, u) THEN DbOutcome(cleaned.users, cleaned.regimens, lg, "NotFound", w)
        ELSE DbOutcome(findByIdAndDelete(cleaned.users, u), cleaned.regimens, lg, "ok", w + 1)

(* authController.deleteAccount: the authenticated user deletes itself;    *)
(* only the coach role has a cleanup.                                      *)
deleteAccount(us, regs, lg, by) ==
    LET cleaned == IF us[by].role = "coach" THEN coachCleanup(us, regs, by)
                   ELSE [users |-> us, regimens |-> regs]
        w == IF cleaned.users # us \/ cleaned.regimens # regs THEN 1 ELSE 0
    IN  DbOutcome(findByIdAndDelete(cleaned.users, by), cleaned.regimens, lg, "ok", w + 1)

(* userService.deleteUserAsAdmin: the document is deleted, nothing else. *)
deleteUserAsAdmin(us, regs, lg, u) ==
    IF ~Found(us, u) THEN DbOutcome(us, regs, lg, "NotFound", 0)
    ELSE DbOutcome(findByIdAndDelete(us, u), regs, lg, "ok", 1)

(* ------------------------------ document.save() ---------------------- *)
(* save() sends the changes made to the copy the caller read, not the      *)
(* whole document: entries pushed onto an array are appended to the stored *)
(* array ($push), a modified scalar path is overwritten ($set).            *)
Pushed(read, mine) == SubSeq(mine, Len(read) + 1, Len(mine))

(* A save that overwrites the stored document with the caller's copy. *)
saveAthleteWhole(stored, read, mine) == mine

(* athlete.save() of assignCoach: read is the fetched copy, mine the copy  *)
(* after "Update Athlete".                                                 *)
saveAthlete(stored, read, mine) ==
    [stored EXCEPT !.coaches = @ \o Pushed(read.coaches, mine.coaches),
                   !.primaryCoachId = IF mine.primaryCoachId # read.primaryCoachId
                                      THEN mine.primaryCoachId ELSE @,
                   !.coachId = IF mine.coachId # read.coachId THEN mine.coachId ELSE @]

(* coach.save() of assignCoach. *)
saveCoach(stored, read, mine) ==
    [stored EXCEPT !.athletes = @ \o Pushed(read.athletes, mine.athletes)]

(* ------------------------------ initial state ------------------------- *)
(* One call of assignCoach in progress: its arguments, the copies it       *)
(* fetched and the saves it still has to issue.                            *)
IdleProc == [pc |-> "idle", a |-> NoId, c |-> NoId, ath |-> NoUser, co |-> NoUser,
             gotA |-> FALSE, gotC |-> FALSE, saveA |-> FALSE, saveC |-> FALSE,
             err |-> "ok", writes |-> 0]

Init ==
    /\ users = [u \in UserIds |-> IF u \in Athletes THEN NoUser ELSE NewUser(RoleOf(u))]
    /\ regimens = [r \in RegimenIds |-> NoRegimen]
    /\ logs = [l \in LogIds |-> NoLog]
    /\ last = [op |-> "none", err |-> "ok", writes |-> 0]
    /\ procs = [p \in ProcIds |-> IdleProc]

(* ------------------------------ atomic requests ----------------------- *)
Register(u) ==
    LET r == registerUser(users, u)
    IN  /\ users' = r.users
        /\ last' = Called("register", r)
        /\ UNCHANGED <<regimens, logs, procs>>

AssignCoach(a, c) ==
    LET r == assignCoach(users, a, c)
    IN  /\ users' = r.users
        /\ last' = Called("assignCoach", r)
        /\ UNCHANGED <<regimens, logs, procs>>

RemoveCoach(a, c) ==
    LET r == removeCoach(users, a, c)
    IN  /\ users' = r.users
        /\ last' = Called("removeCoach", r)
        /\ UNCHANGED <<regimens, logs, procs>>

InviteAthlete(by, t) ==
    /\ Found(users, by)
    /\ LET r == inviteAthlete(users, by, t)
       IN  /\ users' = r.users
           /\ last' = Called("inviteAthlete", r)
    /\ UNCHANGED <<regimens, logs, procs>>

RemoveAthlete(by, id) ==
    /\ Found(users, by)
    /\ LET r == removeAthlete(users, by, id)
       IN  /\ users' = r.users
           /\ last' = Called("removeAthlete", r)
    /\ UNCHANGED <<regimens, logs, procs>>

RequestCoach(by, c) ==
    /\ Found(users, by)
    /\ LET r == requestCoach(users, by, c)
       IN  /\ users' = r.users
           /\ last' = Called("requestCoach", r)
    /\ UNCHANGED <<regimens, logs, procs>>

LinkAthlete(t) ==
    LET r == linkAthlete(users, t)
    IN  /\ users' = r.users
        /\ last' = Called("linkAthlete", r)
        /\ UNCHANGED <<regimens, logs, procs>>

(* A request that may write users, regimens and logs. *)
Apply(o, r) ==
    /\ users' = r.users
    /\ regimens' = r.regimens
    /\ logs' = r.logs
    /\ last' = Called(o, r)
    /\ UNCHANGED procs

AssignRegimen(by, a, rid) ==
    /\ Found(users, by)
    /\ Apply("assignRegimen", assignRegimen(users, regimens, logs, by, a, rid))

AssignRegimenBulk(by, rid, ids) ==
    /\ Found(users, by) /\ users[by].role = "coach"
    /\ Apply("assignRegimenBulk", assignRegimenBulk(users, regimens, logs, by, rid, ids))

FreeRegimen(r) ==
    /\ ~regimens[r].exists /\ ~regimens[r].deleted
    /\ \A q \in DOMAIN regimens : q < r => (regimens[q].exists \/ regimens[q].deleted)

CreateRegimen(by) ==
    /\ Found(users, by) /\ users[by].role = "coach"
    /\ \E r \in DOMAIN regimens :
          /\ FreeRegimen(r)
          /\ regimens' = createRegimen(regimens, r, by)
    /\ last' = [op |-> "createRegimen", err |-> "ok", writes |-> 1]
    /\ UNCHANGED <<users, logs, procs>>

UpdateRegimen(rid, by) ==
    /\ Found(users, by)
    /\ Apply("updateRegimen", updateRegimen(users, regimens, logs, rid, by))

DeleteRegimen(rid, by) ==
    /\ Found(users, by)
    /\ Apply("deleteRegimen",
             deleteRegimen(users, regimens, logs, rid, by, users[by].role))

AssignRegimenToAthlete(rid, a, by) ==
    /\ Found(users, by)
    /\ Apply("assignRegimenToAthlete",
             assignRegimenToAthlete(users, regimens, logs, rid, a, by))

RemoveAthleteFromRegimen(rid, a, by) ==
    /\ Found(users, by)
    /\ Apply("removeAthleteFromRegimen",
             removeAthleteFromRegimen(users, regimens, logs, rid, a, by))

FreeLog(l) == ~logs[l].exists /\ \A k \in LogIds : k < l => logs[k].exists

CreateWorkoutLog(a, ref) ==
    /\ Found(users, a) /\ users[a].role = "athlete"
    /\ \E l \in LogIds :
          /\ FreeLog(l)
          /\ logs' = createWorkoutLog(logs, l, a, ref, <<>>)
    /\ last' = [op |-> "createWorkoutLog", err |-> "ok", writes |-> 1]
    /\ UNCHANGED <<users, regimens, procs>>

(* A first registration: the slot never held an account. *)
RegisterNew(u) ==
    /\ users[u].role # "deleted"
    /\ Register(u)

DeleteUserAccount(u) ==
    /\ Found(users, u)
    /\ Apply("deleteUserAccount", deleteUserAccount(users, regimens, logs, u, users[u].role))

DeleteAccount(by) ==
    /\ Found(users, by)
    /\ Apply("deleteAccount", deleteAccount(users, regimens, logs, by))

DeleteUserAsAdmin(u) ==
    /\ Found(users, Admin)
    /\ Apply("deleteUserAsAdmin", deleteUserAsAdmin(users, regimens, logs, u))

(* POST /workout-logs: the athlete stores a log in the first free slot. *)
LogWorkout(a, ref, sharedWith) ==
    /\ Found(users, a) /\ users[a].role = "athlete"
    /\ \E l \in DOMAIN logs :
          /\ ~logs[l].exists /\ \A k \in DOMAIN logs : k < l => logs[k].exists
          /\ logs' = createWorkoutLog(logs, l, a, ref, sharedWith)
    /\ last' = [op |-> "createWorkoutLog", err |-> "ok", writes |-> 1]
    /\ UNCHANGED <<users, regimens, procs>>

DeleteOrphanedLogs ==
    /\ logs' = deleteOrphanedLogs(logs, regimens)
    /\ last' = [op |-> "deleteOrphanedLogs", err |-> "ok",
                writes |-> IF logs' # logs THEN 1 ELSE 0]
    /\ UNCHANGED <<users, regimens, procs>>

HandleCleanupRequestAll ==
    Apply("handleCleanupRequestAll", handleCleanupRequestAll(users, regimens, logs))

HandleCleanupRequest(by, ids, selected) ==
    /\ Found(users, by)
    /\ Apply("handleCleanupRequest", handleCleanupRequest(users, regimens, logs, by, ids, selected))

(* assignCoach with a database error on one of its two saves. *)
AssignCoachOneSaved(a, c, failed) ==
    LET r == assignCoachOneSaved(users, a, c, failed)
    IN  /\ users' = r.users
        /\ last' = Called("assignCoach", r)
        /\ UNCHANGED <<regimens, logs, procs>>

(* POST /workout-logs with an athleteId field in the body. *)
LogWorkoutFromBody(by, bodyAthleteId, ref, sharedWith) ==
    /\ Found(users, by) /\ users[by].role = "athlete"
    /\ \E l \in DOMAIN logs :
          /\ ~logs[l].exists /\ \A k \in DOMAIN logs : k < l => logs[k].exists
          /\ logs' = createWorkoutLogFromBody(logs, l, by, bodyAthleteId, ref, sharedWith)
    /\ last' = [op |-> "createWorkoutLog", err |-> "ok", writes |-> 1]
    /\ UNCHANGED <<users, regimens, procs>>

(* PATCH /workout-logs/:id *)
UpdateWorkoutLog(l, by, sharedWith, stored) ==
    /\ Found(users, by)
    /\ Apply("updateWorkoutLog", updateWorkoutLog(users, regimens, logs, l, by, sharedWith, stored))

(* The athlete completes a workout gap half days after the previous one:  *)
(* the log is stored with its completedAt.                                 *)
CompleteWorkout(a, gap) ==
    /\ Found(users, a) /\ users[a].role = "athlete"
    /\ Len(logs) < MaxWorkouts
    /\ logs' = Append(logs, [exists |-> TRUE, athleteId |-> a,
                             regimenId |-> <<"oid", GhostRegimen>>, sharedWith |-> <<>>,
                             completedAt |-> (IF logs = <<>> THEN 0
                                              ELSE logs[Len(logs)].completedAt) + gap])
    /\ last' = [op |-> "createWorkoutLog", err |-> "ok", writes |-> 1]
    /\ UNCHANGED <<users, regimens, procs>>

(* GET /achievements: the achievements for the athlete's logs, sorted by   *)
(* completedAt.                                                            *)
CalculateUserAchievements ==
    /\ last' = [op |-> "calculateUserAchievements", err |-> "ok", writes |-> 0,
                earned |-> calculateUserAchievements([i \in DOMAIN logs |-> logs[i].completedAt])]
    /\ UNCHANGED <<users, regimens, logs, procs>>

(* GET /achievements/my-achievements by user u; strictQuery is the setting *)
(* of the installed mongoose.                                              *)
GetMyAchievements(u, strictQuery) ==
    /\ Found(users, u)
    /\ last' = [op |-> "getMyAchievements", err |-> "ok", writes |-> 0,
                earned |-> calculateUserAchievementsOf(logs, u, strictQuery)]
    /\ UNCHANGED <<users, regimens, logs, procs>>

(* POST /pace/calculate *)
CalculatePace(totalDistance, targetTimeString, effortPercentage, up) ==
    LET r == calculatePace(totalDistance, targetTimeString, effortPercentage, up)
    IN  /\ last' = [op |-> "calculatePace", err |-> r.err, writes |-> 0,
                    totalDistance |-> totalDistance, targetTime |-> targetTimeString,
                    effortPercentage |-> effortPercentage, results |-> r.results]
        /\ UNCHANGED <<users, regimens, logs, procs>>

(* node migrate-to-multiple-coaches.js *)
MigrateToMultipleCoaches ==
    LET r == migrateToMultipleCoaches(users)
    IN  /\ users' = r.users
        /\ last' = Called("migrateToMultipleCoaches", r)
        /\ UNCHANGED <<regimens, logs, procs>>

(* deleteRegimen with a database error in one cleanup step. *)
DeleteRegimenCleanupFailed(rid, by, failed) ==
    /\ Found(users, by)
    /\ Apply("deleteRegimen",
             deleteRegimenCleanupFailed(users, regimens, logs, rid, by, users[by].role, failed))

(* node update-regimens.js: one complete run of the repair script. *)
FixWorkoutLogRelationships ==
    Apply("fixWorkoutLogRelationships", fixWorkoutLogRelationships(users, regimens, logs))

FixWorkoutLogAssociations ==
    Apply("fixWorkoutLogAssociations", fixWorkoutLogAssociations(users, regimens, logs))

(* ------------------------------ assignCoach, step by step ------------- *)
(* The call starts: both findById queries are issued. *)
Call(p, a, c) ==
    /\ procs[p].pc = "idle"
    /\ procs' = [procs EXCEPT ![p] = [IdleProc EXCEPT !.pc = "reading", !.a = a, !.c = c]]
    /\ UNCHANGED <<users, regimens, logs, last>>

(* User.findById(athleteId) answers. *)
ReadAthlete(p) ==
    /\ procs[p].pc = "reading" /\ ~procs[p].gotA
    /\ procs' = [procs EXCEPT ![p].gotA = TRUE,
                              ![p].ath = IF Found(users, procs[p].a) THEN users[procs[p].a] ELSE NoUser]
    /\ UNCHANGED <<users, regimens, logs, last>>

(* User.findById(coachId) answers. *)
ReadCoach(p) ==
    /\ procs[p].pc = "reading" /\ ~procs[p].gotC
    /\ procs' = [procs EXCEPT ![p].gotC = TRUE,
                              ![p].co = IF Found(users, procs[p].c) THEN users[procs[p].c] ELSE NoUser]
    /\ UNCHANGED <<users, regimens, logs, last>>

(* Both answers are in: the role checks, the two updates of the fetched    *)
(* copies, and the saves to issue.                                         *)
Decide(p) ==
    /\ procs[p].pc = "reading" /\ procs[p].gotA /\ procs[p].gotC
    /\ LET q == procs[p]
           valid == /\ q.ath.exists /\ q.ath.role = "athlete"
                    /\ q.co.exists /\ q.co.role = "coach"
           athleteNeedsSave == assignCoachAthlete(q.ath, q.c) # q.ath
           coachNeedsSave == assignCoachCoach(q.co, q.a) # q.co
       IN  procs' = [procs EXCEPT ![p] =
                        IF valid
                        THEN [q EXCEPT !.pc = "saving", !.saveA = athleteNeedsSave,
                                       !.saveC = coachNeedsSave]
                        ELSE [q EXCEPT !.pc = "saving", !.err = "NotFound"]]
    /\ UNCHANGED <<users, regimens, logs, last>>

(* athlete.save() reaches the store. *)
SaveAthlete(p) ==
    /\ procs[p].pc = "saving" /\ procs[p].saveA
    /\ LET q == procs[p]
       IN  users' = [users EXCEPT ![q.a] = saveAthlete(@, q.ath, assignCoachAthlete(q.ath, q.c))]
    /\ procs' = [procs EXCEPT ![p].saveA = FALSE, ![p].writes = @ + 1]
    /\ UNCHANGED <<regimens, logs, last>>

(* coach.save() reaches the store. *)
SaveCoach(p) ==
    /\ procs[p].pc = "saving" /\ procs[p].saveC
    /\ LET q == procs[p]
       IN  users' = [users EXCEPT ![q.c] = saveCoach(@, q.co, assignCoachCoach(q.co, q.a))]
    /\ procs' = [procs EXCEPT ![p].saveC = FALSE, ![p].writes = @ + 1]
    /\ UNCHANGED <<regimens, logs, last>>

(* Promise.all(savePromises) resolved: the call returns. *)
Return(p) ==
    /\ procs[p].pc = "saving" /\ ~procs[p].saveA /\ ~procs[p].saveC
    /\ procs' = [procs EXCEPT ![p].pc = "done"]
    /\ last' = Called("assignCoach", procs[p])
    /\ UNCHANGED <<users, regimens, logs>>

(* ------------------------------ removeCoach, step by step -------------- *)
(* athlete.save() of removeCoach: athlete.coaches was assigned a filtered  *)
(* array, so the save sets the whole array and carries the version of the  *)
(* fetched copy; the scalar fields are set when they changed.              *)
versionConflict(stored, read) == stored.coaches # read.coaches

saveAthleteFiltered(stored, read, mine) ==
    [stored EXCEPT !.coaches = IF mine.coaches # read.coaches THEN mine.coaches ELSE @,
                   !.primaryCoachId = IF mine.primaryCoachId # read.primaryCoachId
                                      THEN mine.primaryCoachId ELSE @,
                   !.coachId = IF mine.coachId # read.coachId THEN mine.coachId ELSE @]

(* coachToRemove.save() of removeCoach. *)
saveCoachFiltered(stored, read, mine) ==
    [stored EXCEPT !.athletes = IF mine.athletes # read.athletes THEN mine.athletes ELSE @]

(* A call of removeCoach(a, c) enters and issues its two findById. *)
CallRemove(p, a, c) ==
    /\ procs[p].pc = "idle"
    /\ procs' = [procs EXCEPT ![p] = [IdleProc EXCEPT !.pc = "unlinkReading", !.a = a, !.c = c]]
    /\ UNCHANGED <<users, regimens, logs, last>>

(* User.findById(athleteId) answers. *)
ReadAthleteRemove(p) ==
    /\ procs[p].pc = "unlinkReading" /\ ~procs[p].gotA
    /\ procs' = [procs EXCEPT ![p].gotA = TRUE,
                              ![p].ath = IF Found(users, procs[p].a) THEN users[procs[p].a] ELSE NoUser]
    /\ UNCHANGED <<users, regimens, logs, last>>

(* User.findById(coachIdToRemove) answers. *)
ReadCoachRemove(p) ==
    /\ procs[p].pc = "unlinkReading" /\ ~procs[p].gotC
    /\ procs' = [procs EXCEPT ![p].gotC = TRUE,
                              ![p].co = IF Found(users, procs[p].c) THEN users[procs[p].c] ELSE NoUser]
    /\ UNCHANGED <<users, regimens, logs, last>>

(* Both answers are in: the role checks, the two filters of the fetched    *)
(* copies, and the saves to issue.                                         *)
DecideRemove(p) ==
    /\ procs[p].pc = "unlinkReading" /\ procs[p].gotA /\ procs[p].gotC
    /\ LET q == procs[p]
           valid == /\ q.ath.exists /\ q.ath.role = "athlete"
                    /\ q.co.exists /\ q.co.role = "coach"
           athleteModified == removeCoachDropped(q.ath, q.c)
                                 \/ removeCoachFiltered(q.ath, q.c).coachId = q.c
           coachModified == Has(q.co.athletes, q.a)
       IN  procs' = [procs EXCEPT ![p] =
                        IF valid
                        THEN [q EXCEPT !.pc = "unlinkSaving", !.saveA = athleteModified,
                                       !.saveC = coachModified]
                        ELSE [q EXCEPT !.pc = "unlinkSaving", !.err = "NotFound"]]
    /\ UNCHANGED <<users, regimens, logs, last>>

(* athlete.save() reaches the store; it is rejected when the stored array  *)
(* is no longer the one that was fetched.                                  *)
SaveAthleteRemove(p) ==
    /\ procs[p].pc = "unlinkSaving" /\ procs[p].saveA
    /\ LET q == procs[p]
       IN  IF versionConflict(users[q.a], q.ath)
           THEN /\ procs' = [procs EXCEPT ![p].saveA = FALSE, ![p].err = "ServerError"]
                /\ UNCHANGED users
           ELSE /\ users' = [users EXCEPT ![q.a] =
                                saveAthleteFiltered(@, q.ath, removeCoachAthlete(q.ath, q.c))]
                /\ procs' = [procs EXCEPT ![p].saveA = FALSE, ![p].writes = @ + 1]
    /\ UNCHANGED <<regimens, logs, last>>

(* coachToRemove.save() reaches the store. *)
SaveCoachRemove(p) ==
    /\ procs[p].pc = "unlinkSaving" /\ procs[p].saveC
    /\ LET q == procs[p]
       IN  IF users[q.c].athletes # q.co.athletes
           THEN /\ procs' = [procs EXCEPT ![p].saveC = FALSE, ![p].err = "ServerError"]
                /\ UNCHANGED users
           ELSE /\ users' = [users EXCEPT ![q.c] =
                                saveCoachFiltered(@, q.co, removeCoachCoach(q.co, q.a))]
                /\ procs' = [procs EXCEPT ![p].saveC = FALSE, ![p].writes = @ + 1]
    /\ UNCHANGED <<regimens, logs, last>>

(* Promise.all(savePromises) settled: the call returns or throws. *)
ReturnRemove(p) ==
    /\ procs[p].pc = "unlinkSaving" /\ ~procs[p].saveA /\ ~procs[p].saveC
    /\ procs' = [procs EXCEPT ![p].pc = "unlinked"]
    /\ last' = Called("removeCoach", procs[p])
    /\ UNCHANGED <<users, regimens, logs>>

(* ------------------------------ request inputs ------------------------ *)
(* Ids a caller may pass where a coach is expected: the coaches, an id     *)
(* that resolves to nothing and the id of a user of another role.          *)
CoachArgs == Coaches \cup {Ghost, Admin}

(* Authenticated callers of the coach-only routes: the coaches and, for    *)
(* the role check, one athlete.                                            *)
CoachCallers == Coaches \cup {1}

(* Callers of the regimen service: the coaches, the admin and an athlete. *)
ServiceCallers == Coaches \cup {Admin, 1}

(* The athlete whose requests the controller-level specifications follow. *)
Solo == {1}

(* The two service operations alone, from a store without links. *)
LinkRequests(AS) ==
    \/ \E u \in AS : Register(u)
    \/ \E a \in AS \cup {Ghost, LinkCoach}, c \in CoachArgs : AssignCoach(a, c)
    \/ \E a \in AS \cup {Ghost, LinkCoach}, c \in CoachArgs : RemoveCoach(a, c)

(* The controller's relationship requests. *)
CoachingRequests(AS) ==
    \/ \E by \in CoachCallers, t \in AS : InviteAthlete(by, t)
    \/ \E by \in CoachCallers, id \in AS \cup {Ghost} : RemoveAthlete(by, id)
    \/ \E by \in AS \cup {LinkCoach}, c \in CoachArgs \cup {NoId} : RequestCoach(by, c)

(* authController.assignRegimen, with its auto-connect step. *)
ConnectRequests(AS) ==
    \/ \E by \in Coaches : CreateRegimen(by)
    \/ \E by \in CoachCallers, a \in AS \cup {Ghost, NoId}, rid \in RegimenRefs : AssignRegimen(by, a, rid)

(* The regimen service's assignment requests and the workout logs. *)
AssignmentRequests(AS) ==
    \/ \E by \in Coaches : CreateRegimen(by)
    \/ \E rid \in RegimenRefs, by \in ServiceCallers : DeleteRegimen(rid, by)
    \/ \E rid \in RegimenRefs, a \in AS \cup {Ghost}, by \in ServiceCallers : AssignRegimenToAthlete(rid, a, by)
    \/ \E rid \in RegimenRefs, a \in AS \cup {Ghost}, by \in ServiceCallers : RemoveAthleteFromRegimen(rid, a, by)
    \/ \E a \in AS, ref \in RegimenRefs : CreateWorkoutLog(a, ref)

NextLink == LinkRequests(Athletes)

SpecLink == Init /\ [][NextLink]_vars

NextCoaching == LinkRequests(Athletes) \/ CoachingRequests(Athletes)

SpecCoaching == Init /\ [][NextCoaching]_vars

NextConnect == LinkRequests(Solo) \/ CoachingRequests(Solo) \/ ConnectRequests(Solo)

SpecConnect == Init /\ [][NextConnect]_vars

(* Every relationship-changing request, the /link-athlete route included. *)
NextRel ==
    \/ NextConnect
    \/ \E t \in Solo : LinkAthlete(t)

SpecRel == Init /\ [][NextRel]_vars

(* The regimen service as a whole. *)
NextRegimen ==
    \/ LinkRequests(Solo)
    \/ AssignmentRequests(Solo)
    \/ \E rid \in RegimenRefs, by \in ServiceCallers : UpdateRegimen(rid, by)

SpecRegimen == Init /\ [][NextRegimen]_vars

(* The service's and the controller's assignment requests together. *)
Next ==
    \/ LinkRequests(Solo)
    \/ AssignmentRequests(Solo)
    \/ \E by \in Solo \cup {LinkCoach}, c \in CoachArgs \cup {NoId} : RequestCoach(by, c)
    \/ \E by \in CoachCallers, a \in Solo \cup {Ghost, NoId}, rid \in RegimenRefs : AssignRegimen(by, a, rid)
    \/ \E by \in Coaches, rid \in RegimenRefs, ids \in SUBSET (Solo \cup {Ghost}) : AssignRegimenBulk(by, rid, ids)

Spec == Init /\ [][Next]_vars

(* Concurrent assignCoach calls for one registered athlete without coach. *)
InitConc ==
    /\ users = [u \in UserIds |-> IF u \in Athletes \ Solo THEN NoUser ELSE NewUser(RoleOf(u))]
    /\ regimens = [r \in RegimenIds |-> NoRegimen]
    /\ logs = [l \in LogIds |-> NoLog]
    /\ last = [op |-> "none", err |-> "ok", writes |-> 0]
    /\ procs = [p \in ProcIds |-> IdleProc]

NextConc ==
    \E p \in ProcIds :
        \/ \E a \in Solo, c \in Coaches \cup {Ghost} : Call(p, a, c)
        \/ ReadAthlete(p)
        \/ ReadCoach(p)
        \/ Decide(p)
        \/ SaveAthlete(p)
        \/ SaveCoach(p)
        \/ Return(p)

SpecConc == InitConc /\ [][NextConc]_vars

(* A regimen assigned to several athletes, their logs, and its deletion. *)
NextCascade ==
    \/ \E u \in Athletes : Register(u)
    \/ \E a \in Athletes, c \in Coaches : AssignCoach(a, c)
    \/ \E by \in Coaches : CreateRegimen(by)
    \/ \E rid \in RegimenRefs, a \in Athletes, by \in Coaches : AssignRegimenToAthlete(rid, a, by)
    \/ \E a \in Athletes, ref \in RegimenRefs : CreateWorkoutLog(a, ref)
    \/ \E rid \in RegimenRefs, by \in ServiceCallers : DeleteRegimen(rid, by)

SpecCascade == Init /\ [][NextCascade]_vars

(* Accounts with links and assignments, and the three deletion paths. *)
NextDelete ==
    \/ \E u \in Athletes : RegisterNew(u)
    \/ \E a \in Athletes, c \in Coaches : AssignCoach(a, c)
    \/ \E by \in Coaches : CreateRegimen(by)
    \/ \E rid \in RegimenRefs, a \in Athletes, by \in Coaches : AssignRegimenToAthlete(rid, a, by)
    \/ \E u \in Athletes \cup Coaches : DeleteUserAccount(u)
    \/ \E by \in Athletes \cup Coaches : DeleteAccount(by)
    \/ \E u \in Athletes \cup Coaches \cup {Ghost} : DeleteUserAsAdmin(u)

SpecDelete == Init /\ [][NextDelete]_vars

(* Workout logs, the deletion of their regimens and the orphan purges. *)
InitPurge ==
    /\ users = [u \in UserIds |-> IF u \in Athletes THEN NoUser ELSE NewUser(RoleOf(u))]
    /\ regimens = [r \in RegimenIds |-> NoRegimen]
    /\ logs = [l \in PurgeLogIds |-> NoLog]
    /\ last = [op |-> "none", err |-> "ok", writes |-> 0]
    /\ procs = [p \in ProcIds |-> IdleProc]

NextPurge ==
    \/ \E u \in Solo : Register(u)
    \/ \E by \in Coaches : CreateRegimen(by)
    \/ \E a \in Solo, ref \in RegimenRefs : LogWorkout(a, ref, <<>>)
    \/ \E rid \in RegimenRefs, by \in Coaches : DeleteRegimen(rid, by)
    \/ DeleteOrphanedLogs
    \/ HandleCleanupRequestAll
    \/ \E by \in CoachCallers, ids \in SUBSET PurgeLogIds, selected \in BOOLEAN :
          HandleCleanupRequest(by, ids, selected)

SpecPurge == InitPurge /\ [][NextPurge]_vars

(* Logs for regimens whose coach is not linked to the athlete, and the    *)
(* two repair scripts.                                                     *)
NextRepair ==
    \/ \E u \in Athletes : Register(u)
    \/ \E a \in Athletes, c \in Coaches : AssignCoach(a, c)
    \/ \E by \in Coaches : CreateRegimen(by)
    \/ \E a \in Athletes, ref \in RegimenRefs : LogWorkout(a, ref, <<>>)
    \/ \E rid \in RegimenRefs, by \in Coaches : DeleteRegimen(rid, by)
    \/ FixWorkoutLogRelationships
    \/ FixWorkoutLogAssociations

SpecRepair == InitPurge /\ [][NextRepair]_vars

(* Links written by assignCoach with and without a failed save, logs, and *)
(* the repair scripts.                                                     *)
SavesOfAssignCoach == {"athlete", "coach"}

NextReconcile ==
    \/ \E u \in Solo : Register(u)
    \/ \E a \in Solo, c \in Coaches : AssignCoach(a, c)
    \/ \E a \in Solo, c \in Coaches, failed \in SavesOfAssignCoach : AssignCoachOneSaved(a, c, failed)
    \/ \E by \in Coaches : CreateRegimen(by)
    \/ \E a \in Solo, ref \in RegimenRefs : LogWorkout(a, ref, <<>>)
    \/ FixWorkoutLogRelationships
    \/ FixWorkoutLogAssociations

SpecReconcile == InitPurge /\ [][NextReconcile]_vars

(* Logs created and updated with sharedWith lists that may name anyone.   *)
SharedWithInputs ==
    {<<>>} \cup {<<u>> : u \in Athletes \cup {LinkCoach}}
           \cup {<<u, v>> : u \in Athletes \cup {LinkCoach}, v \in Athletes \cup {LinkCoach}}

NextShare ==
    \/ \E u \in Athletes : Register(u)
    \/ \E a \in Athletes : AssignCoach(a, LinkCoach)
    \/ \E a \in Athletes, sw \in SharedWithInputs : LogWorkout(a, <<"oid", GhostRegimen>>, sw)
    \/ \E by \in Athletes, b \in Athletes \cup {NoId}, sw \in SharedWithInputs :
          LogWorkoutFromBody(by, b, <<"oid", GhostRegimen>>, sw)
    \/ \E l \in PurgeLogIds, by \in Athletes \cup {LinkCoach}, sw \in SharedWithInputs, stored \in BOOLEAN :
          UpdateWorkoutLog(l, by, sw, stored)

SpecShare == InitPurge /\ [][NextShare]_vars

(* One athlete's history of completed workouts: the first in the morning  *)
(* or the afternoon of day 0, the next ones at any gap up to six days, the *)
(* later ones a week apart.                                                *)
InitAchieve ==
    /\ users = [u \in UserIds |-> IF u \in Athletes THEN NoUser ELSE NewUser(RoleOf(u))]
    /\ regimens = [r \in RegimenIds |-> NoRegimen]
    /\ logs = <<>>
    /\ last = [op |-> "none", err |-> "ok", writes |-> 0]
    /\ procs = [p \in ProcIds |-> IdleProc]

WorkoutGaps ==
    IF logs = <<>> THEN 0..(UnitsPerDay - 1)
    ELSE IF Len(logs) < VariedWorkouts THEN 0..MaxGap
    ELSE {7 * UnitsPerDay}

NextAchieve ==
    \/ \E u \in Solo : Register(u)
    \/ \E a \in Solo, gap \in 0..(7 * UnitsPerDay) : gap \in WorkoutGaps /\ CompleteWorkout(a, gap)
    \/ CalculateUserAchievements

SpecAchieve == InitAchieve /\ [][NextAchieve]_vars

(* Two athletes completing workouts, each asking for their achievements.   *)
MaxSharedWorkouts == 3

NextAchieveOf ==
    \/ \E u \in Athletes : Register(u)
    \/ \E a \in Athletes, gap \in {0, UnitsPerDay} :
          Len(logs) < MaxSharedWorkouts /\ CompleteWorkout(a, gap)
    \/ \E u \in Athletes, strictQuery \in BOOLEAN : GetMyAchievements(u, strictQuery)

SpecAchieveOf == InitAchieve /\ [][NextAchieveOf]_vars

(* Pace requests: distances with and without 50 m splits, times with two   *)
(* and three decimals and with minutes, efforts in and out of range.       *)
PaceDistances == {0, 30, 50, 100, 150, 200, 250}

PaceTimes ==
    {TimeString(FALSE, 0, ms) : ms \in {0 - 1000, 0, 9580, 10000, 10010, 10100, 21345}}
       \cup {TimeString(TRUE, 1, 5000), TimeString(TRUE, 0, 61000)}

PaceEfforts == {0, 75, 90, 100, 101}

NextPace ==
    \E totalDistance \in PaceDistances, str \in PaceTimes, effort \in PaceEfforts :
       \E up \in SUBSET generateStandardSegments(totalDistance) :
          CalculatePace(totalDistance, str, effort, up)

SpecPace == InitAchieve /\ [][NextPace]_vars

(* Athletes with a legacy coachId only (requestCoach), with links          *)
(* (assignCoach), or with both, and the migration script.                  *)
NextMigrate ==
    \/ \E u \in Athletes : Register(u)
    \/ \E a \in Athletes, c \in Coaches : AssignCoach(a, c)
    \/ \E a \in Athletes, c \in Coaches : RemoveCoach(a, c)
    \/ \E by \in Athletes, c \in Coaches : RequestCoach(by, c)
    \/ MigrateToMultipleCoaches

SpecMigrate == Init /\ [][NextMigrate]_vars

(* Two regimens with logs naming them by either id, deletions whose log    *)
(* cleanup fails, and the orphan purge.                                    *)
InitCompensate ==
    /\ users = [u \in UserIds |-> IF u \in Athletes THEN NoUser ELSE NewUser(RoleOf(u))]
    /\ regimens = [r \in RegimenIds \cup {GhostRegimen} |-> NoRegimen]
    /\ logs = [l \in PurgeLogIds |-> NoLog]
    /\ last = [op |-> "none", err |-> "ok", writes |-> 0]
    /\ procs = [p \in ProcIds |-> IdleProc]

NextCompensate ==
    \/ \E u \in Solo : Register(u)
    \/ \E by \in {LinkCoach} : CreateRegimen(by)
    \/ \E a \in Solo, ref \in RegimenRefs : LogWorkout(a, ref, <<>>)
    \/ \E rid \in RegimenRefs, by \in {LinkCoach} : DeleteRegimen(rid, by)
    \/ \E rid \in RegimenRefs, by \in {LinkCoach}, failed \in {"users", "logs"} :
          DeleteRegimenCleanupFailed(rid, by, failed)
    \/ DeleteOrphanedLogs

SpecCompensate == InitCompensate /\ [][NextCompensate]_vars

(* Link and unlink calls in flight on an athlete linked to one coach.      *)
LinkedAthlete(c) == [NewUser("athlete") EXCEPT !.coaches = <<c>>, !.primaryCoachId = c,
                                               !.coachId = c]

InitInterleave ==
    /\ users = [u \in UserIds |->
                  IF u \in Solo THEN LinkedAthlete(LinkCoach)
                  ELSE IF u \in Athletes THEN NoUser
                  ELSE IF u = LinkCoach THEN [NewUser("coach") EXCEPT !.athletes = <<1>>]
                  ELSE NewUser(RoleOf(u))]
    /\ regimens = [r \in RegimenIds |-> NoRegimen]
    /\ logs = [l \in LogIds |-> NoLog]
    /\ last = [op |-> "none", err |-> "ok", writes |-> 0]
    /\ procs = [p \in ProcIds |-> IdleProc]

NextInterleave ==
    \E p \in ProcIds :
        \/ \E a \in Solo, c \in Coaches : Call(p, a, c)
        \/ ReadAthlete(p)
        \/ ReadCoach(p)
        \/ Decide(p)
        \/ SaveAthlete(p)
        \/ SaveCoach(p)
        \/ Return(p)
        \/ \E a \in Solo, c \in Coaches : CallRemove(p, a, c)
        \/ ReadAthleteRemove(p)
        \/ ReadCoachRemove(p)
        \/ DecideRemove(p)
        \/ SaveAthleteRemove(p)
        \/ SaveCoachRemove(p)
        \/ ReturnRemove(p)

SpecInterleave == InitInterleave /\ [][NextInterleave]_vars

(* ------------------------------ invariants of the data model ---------- *)
(* I1 for one pair: C in A.coaches <=> A in C.athletes *)
Symmetric(us, a, c) == Has(us[a].coaches, c) <=> Has(us[c].athletes, a)

(* I2 for one athlete document *)
PrimaryOk(d) ==
    IF Len(d.coaches) > 0
    THEN Has(d.coaches, d.primaryCoachId)
    ELSE d.primaryCoachId = NoId /\ d.coachId = NoId

(* ------------------------------ claims -------------------------------- *)
(* C1: after any sequence of assignCoach / removeCoach calls starting from *)
(* a store without links, for every athlete A and coach C, C is in         *)
(* A.coaches if and only if A is in C.athletes.                            *)
C1_Symmetry == \A a \in Athletes, c \in Coaches : Symmetric(users, a, c)

(* A link was made for one pair and another pair was unlinked again. *)
C1_Witness ==
    /\ last = [op |-> "removeCoach", err |-> "ok", writes |-> 2]
    /\ \E a \in Athletes, c \in Coaches : Has(users[a].coaches, c) /\ Has(users[c].athletes, a)

(* C2: I1 holds in every state reachable by the relationship-changing      *)
(* requests of the API (assignCoach, removeCoach, inviteAthlete,           *)
(* removeAthlete, requestCoach, assignRegimen's auto-connect,              *)
(* /link-athlete): for every athlete A and coach C, C is in A.coaches if   *)
(* and only if A is in C.athletes.                                         *)
C2_SymmetryAllRequests ==
    \A c \in Coaches, a \in Athletes : users[a].exists => Symmetric(users, a, c)

(* C3: assignCoach(a, c) called twice in a row leaves the state of one     *)
(* call, and the second call issues no document write.                     *)
C3_Idempotent ==
    \A a \in Athletes, c \in Coaches :
        LET once == assignCoach(users, a, c)
            twice == assignCoach(once.users, a, c)
        IN  once.err = "ok" => twice.err = "ok" /\ twice.users = once.users /\ twice.writes = 0

(* A repeated assignCoach ran: it succeeded without writing. *)
C3_Witness ==
    /\ last = [op |-> "assignCoach", err |-> "ok", writes |-> 0]
    /\ \E a \in Athletes, c \in Coaches : Has(users[a].coaches, c)

(* C4: whenever removeCoach(a, c) removes the athlete's primary coach, the *)
(* athlete afterwards has a primary coach among the remaining coaches, or  *)
(* has no coach, no primary coach and no legacy coachId.                   *)
C4_PrimaryAfterRemove ==
    [][\A a \in Athletes, c \in Coaches :
          (/\ users[a].exists
           /\ users[a].primaryCoachId = c
           /\ Has(users[a].coaches, c)
           /\ RemoveCoach(a, c))
          => PrimaryOk(users'[a])]_vars

(* C5: I2 holds in every state reachable by the relationship requests: an  *)
(* athlete with coaches has its primary coach among them, an athlete       *)
(* without coaches has neither primaryCoachId nor coachId.                 *)
C5_PrimaryInCoaches == \A a \in Athletes : users[a].exists => PrimaryOk(users[a])

(* Every call has returned. *)
AllDone == \A p \in ProcIds : procs[p].pc = "done"

(* C6: when concurrent assignCoach(a, c) calls for the same unlinked pair   *)
(* have all returned, c is in a.coaches exactly once and a is in           *)
(* c.athletes exactly once.                                                *)
C6_OneEntry ==
    (AllDone /\ \A p \in ProcIds : procs[p].a = procs[1].a /\ procs[p].c = procs[1].c
                                   /\ procs[p].err = "ok")
    => /\ Count(users[procs[1].a].coaches, procs[1].c) = 1
       /\ Count(users[procs[1].c].athletes, procs[1].a) = 1

(* The calls were given pairwise different coaches, all of them valid. *)
DistinctCoaches ==
    /\ \A p \in ProcIds : procs[p].c \in Coaches /\ procs[p].a = procs[1].a
    /\ \A p, q \in ProcIds : p # q => procs[p].c # procs[q].c

(* C7: when concurrent assignCoach calls linking one athlete without coach *)
(* to different coaches have all returned, a.coaches is the set of those   *)
(* coaches, a is in the athletes of each, and a.primaryCoachId and         *)
(* a.coachId are equal and name one of them.                               *)
C7_UnionConvergence ==
    (AllDone /\ DistinctCoaches)
    => LET a == procs[1].a
           called == {procs[p].c : p \in ProcIds}
       IN  /\ Range(users[a].coaches) = called
           /\ \A c \in called : Has(users[c].athletes, a)
           /\ users[a].primaryCoachId = users[a].coachId
           /\ users[a].primaryCoachId \in called

(* The calls overlapped: each fetched the athlete before any save. *)
C7_Witness ==
    /\ AllDone /\ DistinctCoaches
    /\ \A p \in ProcIds : procs[p].ath.coaches = <<>> /\ procs[p].writes = 2

(* The outcomes the API reports as the client's error. *)
ClientErrors == {"InvalidInput", "NotFound", "Forbidden", "Conflict"}

(* C8: a relationship operation (assignCoach, removeCoach,                 *)
(* assignRegimenToAthlete, removeAthleteFromRegimen, deleteRegimen,        *)
(* requestCoach, authController.assignRegimen) that ends with a client     *)
(* error has written nothing: users, regimens and logs are as before.      *)
C8_NoWriteOnClientError ==
    [][(/\ last'.op \in {"assignCoach", "removeCoach", "assignRegimenToAthlete",
                         "removeAthleteFromRegimen", "deleteRegimen", "requestCoach",
                         "assignRegimen"}
        /\ last'.err \in ClientErrors)
       => UNCHANGED <<users, regimens, logs>>]_vars

(* C9: no assignment request (assignRegimenToAthlete, assignRegimen,       *)
(* assignRegimenBulk) adds a regimen to an athlete's regimens, or an       *)
(* athlete to a regimen's assignedTo, unless the requesting coach was in   *)
(* the athlete's coaches when the request was made.                        *)
C9_AssignmentNeedsLink ==
    [][\A by \in ServiceCallers, a \in Solo, r \in RegimenIds :
          LET gained == \/ ~Has(users[a].regimens, r) /\ Has(users'[a].regimens, r)
                        \/ ~Has(regimens[r].assignedTo, a) /\ Has(regimens'[r].assignedTo, a)
              requested ==
                  \/ \E rid \in RegimenRefs : AssignRegimenToAthlete(rid, a, by)
                  \/ \E rid \in RegimenRefs : AssignRegimen(by, a, rid)
                  \/ \E rid \in RegimenRefs, ids \in SUBSET (Solo \cup {Ghost}) :
                         a \in ids /\ AssignRegimenBulk(by, rid, ids)
          IN  (requested /\ gained) => Has(users[a].coaches, by)]_vars

(* The request was refused and wrote nothing. *)
Refused(res) ==
    /\ res.err = "Forbidden"
    /\ res.users = users /\ res.regimens = regimens /\ res.logs = logs

(* C10: for every regimen and every requester other than its createdBy,   *)
(* updateRegimen, assignRegimenToAthlete and removeAthleteFromRegimen are  *)
(* refused with Forbidden, and so is deleteRegimen unless the requester is *)
(* an admin; regimens, users and logs stay as they were.                   *)
C10_ExclusiveOwnership ==
    \A rid \in RegimenRefs, by \in UserIds, a \in Athletes \cup {Ghost} :
        LET r == resolveRegimen(regimens, rid)
        IN  (r # 0 /\ Found(users, by) /\ regimens[r].createdBy # by)
            => /\ Refused(updateRegimen(users, regimens, logs, rid, by))
               /\ Refused(assignRegimenToAthlete(users, regimens, logs, rid, a, by))
               /\ Refused(removeAthleteFromRegimen(users, regimens, logs, rid, a, by))
               /\ users[by].role # "admin"
                     => Refused(deleteRegimen(users, regimens, logs, rid, by, users[by].role))

(* Another coach's update of an assigned regimen with a log was refused. *)
C10_Witness ==
    /\ last = [op |-> "updateRegimen", err |-> "Forbidden", writes |-> 0]
    /\ \E r \in RegimenIds : regimens[r].exists /\ Len(regimens[r].assignedTo) > 0
    /\ \E l \in LogIds : logs[l].exists

(* C11: after the owning coach assigns regimen R to a linked athlete A,    *)
(* each side holds exactly one entry ([A] and [R] when both were empty     *)
(* before); a second identical call writes no document and changes nothing. *)
C11_IdempotentAssignment ==
    \A rid \in RegimenRefs, a \in Athletes, by \in Coaches :
        LET once == assignRegimenToAthlete(users, regimens, logs, rid, a, by)
            twice == assignRegimenToAthlete(once.users, once.regimens, once.logs, rid, a, by)
            r == resolveRegimen(regimens, rid)
        IN  once.err = "ok"
            => /\ Count(once.regimens[r].assignedTo, a) = 1
               /\ Count(once.users[a].regimens, r) = 1
               /\ (regimens[r].assignedTo = <<>> => once.regimens[r].assignedTo = <<a>>)
               /\ (users[a].regimens = <<>> => once.users[a].regimens = <<r>>)
               /\ twice.err = "ok" /\ twice.writes = 0
               /\ twice.users = once.users /\ twice.regimens = once.regimens
               /\ twice.logs = once.logs

(* The owner repeated an assignment: it succeeded without writing. *)
C11_Witness ==
    /\ last = [op |-> "assignRegimenToAthlete", err |-> "ok", writes |-> 0]
    /\ \E r \in RegimenIds, a \in Athletes :
          regimens[r].assignedTo = <<a>> /\ users[a].regimens = <<r>>

(* C12: I4 holds in every state reachable by the assignment requests       *)
(* (assignRegimenToAthlete, removeAthleteFromRegimen, assignRegimenBulk,   *)
(* assignRegimen, deleteRegimen): every athlete in an existing regimen's   *)
(* assignedTo has that regimen in its regimens.                            *)
C12_AssignedImpliesHeld ==
    \A r \in RegimenIds :
        regimens[r].exists
        => \A a \in Range(regimens[r].assignedTo) :
              a \in DOMAIN users /\ Has(users[a].regimens, r)

(* The bulk request assigned an existing regimen to a linked athlete. *)
C12_Witness ==
    /\ last.op = "assignRegimenBulk" /\ last.err = "ok"
    /\ \E r \in RegimenIds : regimens[r].exists /\ Len(regimens[r].assignedTo) > 0

(* C13: after the owner or an admin deletes a regimen R that was assigned  *)
(* to two athletes A and B, R no longer exists, no athlete's regimens      *)
(* contains R and no workout log referring to R remains.                   *)
C13_DeleteCascade ==
    [][\A rid \in RegimenRefs, by \in ServiceCallers :
          LET r == resolveRegimen(regimens, rid)
          IN  (/\ r # 0
               /\ \E a, b \in Athletes :
                     /\ a # b
                     /\ Has(regimens[r].assignedTo, a) /\ Has(regimens[r].assignedTo, b)
                     /\ Has(users[a].regimens, r) /\ Has(users[b].regimens, r)
               /\ DeleteRegimen(rid, by)
               /\ last'.err = "ok")
              => /\ ~regimens'[r].exists
                 /\ \A a \in Athletes : ~Has(users'[a].regimens, r)
                 /\ \A l \in LogIds : logs'[l].exists => logs'[l].regimenId[2] # r]_vars

(* C14: after a coach account C is deleted (deleteUserAccount with role    *)
(* coach, or deleteAccount), no athlete refers to C in coachId,            *)
(* primaryCoachId or coaches, no regimen created by C exists and no        *)
(* athlete's regimens holds a regimen that C had created.                  *)
C14_CoachDeletionCascade ==
    [][\A c \in Coaches :
          (users[c].exists /\ (DeleteUserAccount(c) \/ DeleteAccount(c)))
          => /\ \A a \in Athletes :
                   users'[a].exists
                   => /\ users'[a].coachId # c /\ users'[a].primaryCoachId # c
                      /\ ~Has(users'[a].coaches, c)
                      /\ \A r \in RegimenIds :
                            (regimens[r].exists /\ regimens[r].createdBy = c)
                            => ~Has(users'[a].regimens, r)
             /\ \A r \in RegimenIds : ~(regimens'[r].exists /\ regimens'[r].createdBy = c)]_vars

(* C15: after an athlete account A is deleted through any deletion path    *)
(* (deleteUserAccount with role athlete, deleteAccount, deleteUserAsAdmin), *)
(* no coach's athletes and no regimen's assignedTo contains A.             *)
C15_AthleteDeletionCascade ==
    [][\A a \in Athletes :
          (users[a].exists /\ (DeleteUserAccount(a) \/ DeleteAccount(a) \/ DeleteUserAsAdmin(a)))
          => /\ \A c \in Coaches : ~Has(users'[c].athletes, a)
             /\ \A r \in RegimenIds : regimens'[r].exists => ~Has(regimens'[r].assignedTo, a)]_vars

(* C16: a purge (deleteOrphanedLogs, or a coach's cleanup request) deletes *)
(* no log whose regimenId refers to an existing regimen, and a purge of    *)
(* all logs deletes every log whose regimenId refers to no regimen.        *)
C16_OrphanPurge ==
    [][\A l \in PurgeLogIds :
          LET refers == resolveRegimen(regimens, logs[l].regimenId) # 0
              all == \/ DeleteOrphanedLogs
                     \/ HandleCleanupRequestAll
                     \/ \E by \in Coaches : HandleCleanupRequest(by, {}, FALSE)
              some == \E by \in Coaches, ids \in SUBSET PurgeLogIds :
                         HandleCleanupRequest(by, ids, TRUE)
          IN  logs[l].exists
              => /\ (all \/ some) /\ refers => logs'[l].exists
                 /\ all /\ ~refers => ~logs'[l].exists]_vars

(* The regimen, the athlete and the regimen's coach of a stored log, when  *)
(* all three are found.                                                    *)
Resolves(l) ==
    /\ logs[l].exists
    /\ resolveRegimen(regimens, logs[l].regimenId) # 0
    /\ Found(users, logs[l].athleteId)
    /\ Found(users, regimens[resolveRegimen(regimens, logs[l].regimenId)].createdBy)

RepairRun == FixWorkoutLogRelationships \/ FixWorkoutLogAssociations

(* One entry after the run where there was none, the same entries where    *)
(* there was one.                                                          *)
InsertedOnce(before, after, id) ==
    Count(after, id) = (IF Has(before, id) THEN Count(before, id) ELSE 1)

(* C17: after a complete run of either repair script, for every log whose  *)
(* regimen, athlete and coach (the regimen's createdBy) resolve, the       *)
(* athlete is in coach.athletes, the coach is in athlete.coaches and the   *)
(* athlete is in regimen.assignedTo, and the run inserted each of them at  *)
(* most once, however many logs name the same athlete and regimen.         *)
C17_RepairPostcondition ==
    [][(RepairRun /\ last'.err = "ok") =>
          \A l \in DOMAIN logs :
             Resolves(l) =>
                LET r == resolveRegimen(regimens, logs[l].regimenId)
                    a == logs[l].athleteId
                    c == regimens[r].createdBy
                IN  /\ InsertedOnce(users[c].athletes, users'[c].athletes, a)
                    /\ InsertedOnce(users[a].coaches, users'[a].coaches, c)
                    /\ InsertedOnce(regimens[r].assignedTo, regimens'[r].assignedTo, a)]_vars

(* A run repaired all three arrays for two logs of the same athlete and    *)
(* regimen.                                                                *)
C17_Witness ==
    /\ last = [op |-> "fixWorkoutLogRelationships", err |-> "ok", writes |-> 3]
    /\ \A l \in DOMAIN logs : Resolves(l)
    /\ \A l, k \in DOMAIN logs :
          logs[l].athleteId = logs[k].athleteId /\ logs[l].regimenId = logs[k].regimenId
    /\ \E l \in DOMAIN logs :
          LET r == resolveRegimen(regimens, logs[l].regimenId)
          IN  /\ regimens[r].assignedTo = <<logs[l].athleteId>>
              /\ users[logs[l].athleteId].coaches = <<regimens[r].createdBy>>
              /\ users[regimens[r].createdBy].athletes = <<logs[l].athleteId>>

(* C18: when one of the two saves of assignCoach(a, c) failed and left the *)
(* link one-sided, a complete run of the repair restores the symmetry of   *)
(* the pair: after a complete run every link of an athlete and a coach is  *)
(* held by both (in this specification a one-sided link comes from a       *)
(* failed save only).                                                      *)
C18_RepairRestoresSymmetry ==
    [][(RepairRun /\ last'.err = "ok") =>
          \A a \in Athletes, c \in Coaches : Symmetric(users', a, c)]_vars

(* C19 (P4, self-share exclusion): no stored log has its athleteId in its  *)
(* sharedWith, and from every reachable state a create or an update whose  *)
(* sharedWith input names the owning athlete stores a sharedWith without   *)
(* that id.                                                                *)
C19_SelfShareExclusion ==
    /\ \A l \in DOMAIN logs : logs[l].exists => ~Has(logs[l].sharedWith, logs[l].athleteId)
    /\ \A l \in DOMAIN logs, a \in Athletes, sw \in SharedWithInputs :
          Has(sw, a) =>
             /\ ~Has(createWorkoutLog(logs, l, a, <<"oid", GhostRegimen>>, sw)[l].sharedWith, a)
             /\ \A b \in Athletes \cup {NoId} :
                   LET doc == createWorkoutLogFromBody(logs, l, a, b, <<"oid", GhostRegimen>>, sw)[l]
                   IN  ~Has(doc.sharedWith, doc.athleteId)
             /\ LET r == updateWorkoutLog(users, regimens, logs, l, a, sw, TRUE)
                IN  r.logs[l].exists => ~Has(r.logs[l].sharedWith, r.logs[l].athleteId)

(* The owner updated a log and it is stored shared with the coach only;    *)
(* the other log was created shared with the coach.                        *)
C19_Witness ==
    /\ last = [op |-> "updateWorkoutLog", err |-> "ok", writes |-> 1]
    /\ \A l \in DOMAIN logs : logs[l].exists /\ logs[l].sharedWith = <<LinkCoach>>

BadgeIds(earned) == {b.id : b \in earned}

CompletedAts == [i \in DOMAIN logs |-> logs[i].completedAt]

(* C20 (P5, achievement monotonicity): for the ascending completion times  *)
(* of the stored workouts, the badge ids calculateUserAchievements returns *)
(* for the first N workouts are among those it returns for the first N+1,  *)
(* for every N.                                                            *)
C20_AchievementMonotonicity ==
    \A n \in 0..(Len(logs) - 1) :
       BadgeIds(calculateUserAchievements(SubSeq(CompletedAts, 1, n)))
          \subseteq BadgeIds(calculateUserAchievements(SubSeq(CompletedAts, 1, n + 1)))

(* The achievements were computed for 26 workouts, the tenth and the       *)
(* twenty-fifth long passed, and both milestones are reported.             *)
C20_Witness ==
    /\ Len(logs) = MaxWorkouts
    /\ last.op = "calculateUserAchievements"
    /\ {"first-workout", "milestone-10", "milestone-25"} \subseteq BadgeIds(last.earned)

(* The anchors of the windows [t, t + 6 days] that hold workouts on three  *)
(* or more calendar days.                                                  *)
QualifyingAnchors(ts) ==
    {i \in DOMAIN ts :
        Cardinality({ts[j] \div UnitsPerDay :
                        j \in {k \in DOMAIN ts : ts[i] <= ts[k] /\ ts[k] <= ts[i] + 6 * UnitsPerDay}}) >= 3}

(* C21 (consistent-week rule): calculateUserAchievements reports           *)
(* consistent-week exactly when some window [t, t + 6 days] anchored at a  *)
(* workout holds workouts on three or more calendar days, and then with    *)
(* the end of the earliest such window as achievedDate.                    *)
C21_ConsistentWeekRule ==
    LET earned == calculateUserAchievements(CompletedAts)
        anchors == QualifyingAnchors(CompletedAts)
    IN  /\ ("consistent-week" \in BadgeIds(earned)) <=> (anchors # {})
        /\ anchors # {} =>
              [id |-> "consistent-week",
               achievedDate |-> CompletedAts[Min(anchors)] + 6 * UnitsPerDay] \in earned

(* The completedAt values of the logs of athlete u, in stored order. *)
CompletedAtsOf(u) ==
    LET own == SelectSeq(logs, LAMBDA l : l.athleteId = u)
    IN  [i \in DOMAIN own |-> own[i].completedAt]

(* C22: the achievements computed for user u are those of exactly the logs *)
(* whose athleteId is u, whatever logs other athletes have.                *)
C22_OwnLogsOnly ==
    [][\A u \in Athletes, strictQuery \in BOOLEAN :
          GetMyAchievements(u, strictQuery) =>
             last'.earned = calculateUserAchievements(CompletedAtsOf(u))]_vars

(* A completed pace request at full effort. *)
FullEffortPace == last.op = "calculatePace" /\ last.err = "ok" /\ last.effortPercentage = 100

PaceEntry(d) == CHOOSE e \in last.results : e.distance = d

(* C23 (P6, pace round-trip) as stated: at effort 100 every returned time, *)
(* the one of the total distance included, equals                          *)
(* targetTime * d / totalDistance.                                         *)
C23_PaceExact ==
    FullEffortPace =>
       \A e \in last.results :
          10 * e.time * last.totalDistance
             = parseTimeToSeconds(last.targetTime).millis * e.distance

(* C23 as it holds: at effort 100 there is one entry for every 50 below    *)
(* the total distance and one for the total distance, each with the time   *)
(* targetTime * d / totalDistance rounded to hundredths of a second (at    *)
(* most half a hundredth away), and calculatePace(100, "10.00", 100) has   *)
(* 100 with "10.00" and 50 with "5.00".                                    *)
C23_PaceRounded ==
    FullEffortPace =>
       /\ {e.distance : e \in last.results} = generateStandardSegments(last.totalDistance)
       /\ \A e \in last.results :
             LET exact == parseTimeToSeconds(last.targetTime).millis * e.distance
                 given == 10 * e.time * last.totalDistance
             IN  /\ given - exact <= 5 * last.totalDistance
                 /\ exact - given <= 5 * last.totalDistance
       /\ (last.totalDistance = 100 /\ last.targetTime = TimeString(FALSE, 0, 10000)) =>
             last.results = {[distance |-> 50, time |-> 500], [distance |-> 100, time |-> 1000]}

(* calculatePace(100, "10.00", 100) was answered. *)
C23_Witness ==
    /\ FullEffortPace
    /\ last.totalDistance = 100 /\ last.targetTime = TimeString(FALSE, 0, 10000)
    /\ PaceEntry(50).time = 500 /\ PaceEntry(100).time = 1000

(* C24: when an athlete connected to coach c1 requests another coach c2,   *)
(* the connection to c1 is kept (the athlete stays in c1.athletes and c1   *)
(* stays in the athlete's coaches) and the athlete is connected to c2 as   *)
(* well.                                                                   *)
C24_RequestKeepsConnections ==
    [][\A a \in Athletes, c1 \in Coaches, c2 \in Coaches :
          (/\ c1 # c2
           /\ Has(users[a].coaches, c1) /\ Has(users[c1].athletes, a)
           /\ RequestCoach(a, c2) /\ last'.err = "ok")
          => /\ Has(users'[c1].athletes, a) /\ Has(users'[a].coaches, c1)
             /\ Has(users'[c2].athletes, a) /\ Has(users'[a].coaches, c2)]_vars

(* An athlete with a coachId and an empty coaches array. *)
LegacyAthlete(d) == d.exists /\ d.role = "athlete" /\ d.coachId # NoId /\ d.coaches = <<>>

(* C25: after the migration every athlete that had a coachId and an empty  *)
(* coaches array has primaryCoachId = coachId and coaches = [coachId];     *)
(* every other document (athletes with coaches, athletes without coachId,  *)
(* coaches) is unchanged.                                                  *)
C25_Migration ==
    [][MigrateToMultipleCoaches =>
          \A u \in UserIds :
             IF LegacyAthlete(users[u])
             THEN users'[u] = [users[u] EXCEPT !.primaryCoachId = users[u].coachId,
                                               !.coaches = <<users[u].coachId>>]
             ELSE users'[u] = users[u]]_vars

(* The migration saved one athlete, who now has the requested coach as    *)
(* the only and primary coach; the other athlete kept both links.          *)
C25_Witness ==
    /\ last = [op |-> "migrateToMultipleCoaches", err |-> "ok", writes |-> 1]
    /\ \E a \in Athletes, b \in Athletes :
          /\ a # b
          /\ users[a].coaches = <<users[a].coachId>> /\ users[a].primaryCoachId = users[a].coachId
          /\ users[a].coachId # NoId /\ Has(users[users[a].coachId].athletes, a)
          /\ Len(users[b].coaches) = 2

(* The log names, by either id, a regimen that was deleted. *)
RefersToDeleted(l) ==
    /\ logs[l].exists
    /\ logs[l].regimenId[2] \in DOMAIN regimens
    /\ regimens[logs[l].regimenId[2]].deleted

(* C26: a deleteRegimen whose log cleanup fails still reports success and  *)
(* leaves the logs, and a later run of deleteOrphanedLogs deletes every    *)
(* log left referring to the deleted regimen and no log of an existing     *)
(* regimen.                                                                *)
C26_Compensation ==
    [][/\ \A rid \in RegimenRefs :
             (/\ DeleteRegimenCleanupFailed(rid, LinkCoach, "logs")
              /\ resolveRegimen(regimens, rid) # 0
              /\ regimens[resolveRegimen(regimens, rid)].createdBy = LinkCoach)
             => /\ last'.err = "ok"
                /\ ~regimens'[resolveRegimen(regimens, rid)].exists
                /\ logs' = logs
       /\ (DeleteOrphanedLogs /\ \E l \in DOMAIN logs : RefersToDeleted(l))
             => \A l \in DOMAIN logs :
                   /\ RefersToDeleted(l) => ~logs'[l].exists
                   /\ (logs[l].exists /\ resolveRegimen(regimens, logs[l].regimenId) # 0)
                         => logs'[l] = logs[l]]_vars


(* C27: athlete a is linked to c1 only; assignCoach(a, c2) and             *)
(* removeCoach(a, c1) run concurrently and all their writes succeed. Every *)
(* interleaving ends with a.coaches = [c2], a in c2.athletes, a not in     *)
(* c1.athletes and a.primaryCoachId = c2.                                  *)
OtherCoach == LinkCoach + 1

LinkAndUnlinkDone ==
    \E p, q \in ProcIds :
        /\ procs[p].pc = "done" /\ procs[p].a = 1 /\ procs[p].c = OtherCoach
        /\ procs[p].err = "ok"
        /\ procs[q].pc = "unlinked" /\ procs[q].a = 1 /\ procs[q].c = LinkCoach
        /\ procs[q].err = "ok"

C27_InterleavedLinkUnlink ==
    LinkAndUnlinkDone
        => /\ users[1].coaches = <<OtherCoach>>
           /\ Has(users[OtherCoach].athletes, 1)
           /\ ~Has(users[LinkCoach].athletes, 1)
           /\ users[1].primaryCoachId = OtherCoach


(* C28: a run of the relationship repair keeps I4: if before the run every *)
(* athlete in a regimen's assignedTo holds that regimen in regimens, the   *)
(* same is true after the run.                                             *)
AssignedAreHeld(us, regs) ==
    \A r \in DOMAIN regs :
        regs[r].exists
        => \A a \in Range(regs[r].assignedTo) : a \in DOMAIN us /\ Has(us[a].regimens, r)

C28_RepairKeepsI4 ==
    [][(RepairRun /\ AssignedAreHeld(users, regimens)) => AssignedAreHeld(users', regimens')]_vars


(* C29: converse of I4. After any sequence of completed assignment         *)
(* operations, every regimen id held in an athlete's regimens names an     *)
(* existing regimen whose assignedTo contains that athlete.                *)
C29_HeldImpliesAssigned ==
    \A a \in Athletes :
        users[a].exists
        => \A r \in Range(users[a].regimens) :
              /\ r \in RegimenIds
              /\ regimens[r].exists
              /\ Has(regimens[r].assignedTo, a)


(* C30: the orphan purge never deletes a workout log whose regimenId is    *)
(* the string id of an existing regimen.                                   *)
C30_PurgeKeepsStringIdLogs ==
    \A l \in DOMAIN logs :
        (/\ logs[l].exists
         /\ logs[l].regimenId[1] = "uuid"
         /\ resolveRegimen(regimens, logs[l].regimenId) # 0)
        => deleteOrphanedLogs(logs, regimens)[l].exists

====
